---- MODULE Spec2Model ----
(***************************************************************************)
(* A model of the directory, inode and eviction logic of ouiche_fs         *)
(* (src/inode.c), of the ioctl that forces an eviction pass (src/fs.c) and *)
(* of the two modules that swap the eviction comparator                    *)
(* (src/ouichefs_strategy_changer.c, src/strategy_changer.c).              *)
(*                                                                         *)
(* Arrays are 0-based as in the C source.  A block is seen through three   *)
(* views of its bytes: a directory block (dblock), a file index block      *)
(* (iblock) and raw data (data); a block is all-zero when the three views  *)
(* are zero.  An access outside a directory block's array is recorded in   *)
(* the variable corrupt; once memory has been written or garbage has been  *)
(* copied in from outside the array, no further operation is explored.     *)
(***************************************************************************)
EXTENDS Integers, Sequences, FiniteSets, TLC

\* ------------------------------------------------------------------ sizes
\* OUICHEFS_MAX_SUBFILES (ouichefs.h), scaled down.
OUICHEFS_MAX_SUBFILES == 3
\* OUICHEFS_FILENAME_LEN (ouichefs.h), scaled down.
OUICHEFS_FILENAME_LEN == 2
\* Number of entries of a file index block (ouichefs.h), scaled down.
IdxSlots == 2
\* sbi->nr_inodes and sbi->nr_blocks of the mounted image.
NrInodes == 5
NrBlocks == 5
\* Largest value of the clock current_time() reads.
MaxTime == 2
\* Largest reference count (i_count) an inode reaches.
MaxCount == 2
\* Largest number of calls that change the volume, or load or unload a module,
\* in one behaviour.
MaxOps == 5

Inodes == 0..(NrInodes - 1)
Blocks == 1..NrBlocks
Slots  == 0..(OUICHEFS_MAX_SUBFILES - 1)
ISlots == 0..(IdxSlots - 1)

\* The root directory: inode 0, index block 1 (inode 0 and block 0 are never
\* handed out: get_free_inode/get_free_block return 0 for "none").
RootIno == 0
RootBlock == 1
NULL == -1

\* File names are NUL-free sequences of characters 1, 2; 0 is NUL.
ValidNames == {<<1>>, <<2>>, <<1, 2>>, <<2, 1>>, <<2, 2>>}
LongNames == {[i \in 1..(OUICHEFS_FILENAME_LEN + 1) |-> 1]}
Names == ValidNames \cup LongNames

Modes == {"REG", "DIR"}

\* ------------------------------------------------------------------ strings
CharAt(s, i) == IF i <= Len(s) THEN s[i] ELSE 0

\* strlen of a name
strlen(n) == Len(n)

\* strncpy(dst, name, OUICHEFS_FILENAME_LEN): copies at most FILENAME_LEN
\* characters and pads with NUL.
strncpy(n) == [i \in 1..OUICHEFS_FILENAME_LEN |-> CharAt(n, i)]

\* strncmp(a, b, OUICHEFS_FILENAME_LEN) == 0
RECURSIVE strncmp_from(_, _, _)
strncmp_from(a, b, i) ==
    IF i > OUICHEFS_FILENAME_LEN THEN TRUE
    ELSE IF CharAt(a, i) # CharAt(b, i) THEN FALSE
    ELSE IF CharAt(a, i) = 0 THEN TRUE
    ELSE strncmp_from(a, b, i + 1)

strncmp_eq(a, b) == strncmp_from(a, b, 1)

\* ------------------------------------------------------------------ blocks
ZeroName == [i \in 1..OUICHEFS_FILENAME_LEN |-> 0]
ZeroFile == [inode |-> 0, filename |-> ZeroName]
ZeroDir  == [i \in Slots |-> ZeroFile]
ZeroIdx  == [i \in ISlots |-> 0]

\* struct inode / struct ouichefs_inode_info of a free (all-zero) inode
ZeroInode == [i_mode |-> "NONE", i_uid |-> 0, i_gid |-> 0, i_size |-> 0,
              i_ctime |-> 0, i_atime |-> 0, i_mtime |-> 0,
              i_nlink |-> 0, i_blocks |-> 0, index_block |-> 0]

S_ISDIR(m) == m = "DIR"
S_ISREG(m) == m = "REG"

\* ------------------------------------------------------------------ state
VARIABLES
    dblock,            \* block -> directory view: array of (inode, filename)
    iblock,            \* block -> file index view: array of block numbers
    data,              \* block -> 1 when the block holds file data, else 0
    inodes,            \* inode number -> inode record
    i_count,           \* inode number -> reference count of the cached inode
    ifree, bfree,      \* sbi->ifree_bitmap, sbi->bfree_bitmap (sets of free bits)
    nr_free_inodes, nr_free_blocks,
    strategy,          \* ouichefs_fblocks_strategy
    default_strategy,  \* saved pointer of ouichefs_strategy_changer.c
    saved_strategy,    \* saved pointer of strategy_changer.c
    loaded,            \* the strategy-changer modules currently loaded
    now,               \* the clock
    corrupt,           \* memory outside a directory block was written
    last,              \* the system call in progress: arguments and result
    ops                \* number of calls that changed the volume or the modules

vars == <<dblock, iblock, data, inodes, i_count, ifree, bfree,
          nr_free_inodes, nr_free_blocks, strategy, default_strategy,
          saved_strategy, loaded, now, corrupt, last, ops>>

\* The file-system state an operation works on, as one record.
FsState == [dblock |-> dblock, iblock |-> iblock, data |-> data,
            inodes |-> inodes, i_count |-> i_count,
            ifree |-> ifree, bfree |-> bfree,
            nr_free_inodes |-> nr_free_inodes,
            nr_free_blocks |-> nr_free_blocks,
            corrupt |-> corrupt]

\* ------------------------------------------------------------------ bitmap
\* The smallest element of a non-empty set of numbers (find_first_bit).
FirstBit(set) == CHOOSE x \in set : \A y \in set : x <= y

\* get_free_inode: first free bit of the inode bitmap, marked used; 0 if none.
get_free_inode(S) ==
    IF S.ifree = {} THEN [st |-> S, ret |-> 0]
    ELSE LET ino == FirstBit(S.ifree) IN
         [st |-> [S EXCEPT !.ifree = @ \ {ino},
                           !.nr_free_inodes = @ - 1],
          ret |-> ino]

\* get_free_block: first free bit of the block bitmap, marked used; 0 if none.
get_free_block(S) ==
    IF S.bfree = {} THEN [st |-> S, ret |-> 0]
    ELSE LET bno == FirstBit(S.bfree) IN
         [st |-> [S EXCEPT !.bfree = @ \ {bno},
                           !.nr_free_blocks = @ - 1],
          ret |-> bno]

\* put_inode: the bit is set free again and the free count incremented.
put_inode(S, ino) ==
    [S EXCEPT !.ifree = @ \cup {ino}, !.nr_free_inodes = @ + 1]

\* put_block: the bit is set free again and the free count incremented.
put_block(S, bno) ==
    [S EXCEPT !.bfree = @ \cup {bno}, !.nr_free_blocks = @ + 1]

\* memset(block, 0, OUICHEFS_BLOCK_SIZE): every view of the block is zero.
memset_block(S, bno) ==
    [S EXCEPT !.dblock[bno] = ZeroDir, !.iblock[bno] = ZeroIdx,
              !.data[bno] = 0]

\* sb_bread(sb, bno) succeeds unless bno is one of the blocks that cannot be
\* read during this operation.
sb_bread_ok(bno, bad) == bno \notin bad

\* ------------------------------------------------------------------ directory scan
\* The scan of ouichefs_remove and of the cross-parent ouichefs_rename:
\*   for (i = 0; i < limit; i++)
\*       if (files[i].inode == ino) f_id = i;
\*       else if (files[i].inode == 0) break;
\* files is the array as the loop reads it (for rename it extends past the
\* block); the result is the pair (f_id, nr_subs = i at loop exit).
RECURSIVE scan_dir(_, _, _, _, _)
scan_dir(files, limit, ino, i, f_id) ==
    IF i >= limit THEN [f_id |-> f_id, nr_subs |-> i]
    ELSE IF files[i].inode = ino THEN scan_dir(files, limit, ino, i + 1, i)
    ELSE IF files[i].inode = 0 THEN [f_id |-> f_id, nr_subs |-> i]
    ELSE scan_dir(files, limit, ino, i + 1, f_id)

\* compact_dir without the memmove: the entry is zeroed where it stands.
compact_dir_hole(files, f_id, nr_subs) ==
    [j \in Slots |-> IF j = f_id THEN ZeroFile ELSE files[j]]

\* compact_dir without the memset: the last entry stays where it was.
compact_dir_keeplast(files, f_id, nr_subs) ==
    LET n == IF f_id # OUICHEFS_MAX_SUBFILES - 1 THEN nr_subs - f_id - 1 ELSE 0
    IN [j \in Slots |->
          IF j >= f_id /\ j < f_id + n THEN files[j + 1] ELSE files[j]]

\* if (f_id != OUICHEFS_MAX_SUBFILES - 1)
\*     memmove(files + f_id, files + f_id + 1, (nr_subs - f_id - 1) entries);
\* memset(&files[nr_subs - 1], 0, one entry);
\* applied to the array `files` (as the loop read it); the result is the array
\* restricted to the block's own slots.
compact_dir(files, f_id, nr_subs) ==
    LET n == IF f_id # OUICHEFS_MAX_SUBFILES - 1 THEN nr_subs - f_id - 1 ELSE 0
        moved == [j \in Slots |->
                    IF j >= f_id /\ j < f_id + n THEN files[j + 1]
                    ELSE files[j]]
    IN [j \in Slots |-> IF j = nr_subs - 1 THEN ZeroFile ELSE moved[j]]

\* The slots the memmove and the memset of compact_dir write.
compact_writes(f_id, nr_subs) ==
    LET n == IF f_id # OUICHEFS_MAX_SUBFILES - 1 THEN nr_subs - f_id - 1 ELSE 0
    IN { j \in (f_id)..(f_id + n - 1) : TRUE } \cup {nr_subs - 1}

\* The slots outside the block the memmove of compact_dir copies from.
compact_reads(f_id, nr_subs) ==
    LET n == IF f_id # OUICHEFS_MAX_SUBFILES - 1 THEN nr_subs - f_id - 1 ELSE 0
    IN { j + 1 : j \in (f_id)..(f_id + n - 1) }

\* ------------------------------------------------------------------ remove
\* The loop of ouichefs_remove over the file index block:
\*   for (i = 0; i < inode->i_blocks - 1; i++) {
\*       if (!file_block->blocks[i]) continue;
\*       put_block(sbi, file_block->blocks[i]);
\*       bh2 = sb_bread(sb, file_block->blocks[i]);
\*       if (!bh2) continue;
\*       memset(block, 0, OUICHEFS_BLOCK_SIZE); }
RECURSIVE free_data_blocks(_, _, _, _, _)
free_data_blocks(S, blocks, n, i, bad) ==
    IF i >= n \/ i >= IdxSlots THEN S
    ELSE IF blocks[i] = 0 THEN free_data_blocks(S, blocks, n, i + 1, bad)
    ELSE LET S1 == put_block(S, blocks[i])
             S2 == IF sb_bread_ok(blocks[i], bad)
                   THEN memset_block(S1, blocks[i]) ELSE S1
         IN free_data_blocks(S2, blocks, n, i + 1, bad)

\* clean_inode: of ouichefs_remove: the inode's fields are zeroed (i_nlink is
\* not among them), then the index block and the inode are freed.
clean_inode(S, ino, bno) ==
    LET S1 == [S EXCEPT !.inodes[ino] =
                  [@ EXCEPT !.i_blocks = 0, !.index_block = 0, !.i_size = 0,
                            !.i_uid = 0, !.i_gid = 0, !.i_mode = "NONE",
                            !.i_ctime = 0, !.i_mtime = 0, !.i_atime = 0]]
    IN put_inode(put_block(S1, bno), ino)

\* The first part of ouichefs_remove: the entry of ino leaves the index of
\* dir (sc is the result of the search loop), the times and the link count of
\* dir are updated.
remove_entry(S, dir, ino, sc, t) ==
    LET dbno == S.inodes[dir].index_block IN
    [S EXCEPT !.dblock[dbno] = compact_dir(@, sc.f_id, sc.nr_subs),
              !.corrupt = @ \/ \E j \in compact_writes(sc.f_id, sc.nr_subs) :
                                    j \notin Slots,
              \* Update inode stats
              !.inodes[dir] =
                  [@ EXCEPT !.i_mtime = t, !.i_atime = t, !.i_ctime = t,
                            !.i_nlink = IF S_ISDIR(S.inodes[ino].i_mode)
                                        THEN @ - 1 ELSE @]]

\* remove_blocks that gives up when the index block cannot be read: the inode
\* and the index block stay allocated.
remove_blocks_abort(S, ino, bad) ==
    LET bno == S.inodes[ino].index_block IN
    IF ~sb_bread_ok(bno, bad) THEN S
    ELSE clean_inode(
             memset_block(
                 IF S_ISDIR(S.inodes[ino].i_mode) THEN S
                 ELSE free_data_blocks(S, S.iblock[bno],
                                       S.inodes[ino].i_blocks - 1, 0, bad),
                 bno),
             ino, bno)

\* The second part of ouichefs_remove: the blocks the index block points to
\* are freed (regular file), the index block is scrubbed, unless it cannot be
\* read; then clean_inode.
remove_blocks(S, ino, bad) ==
    LET bno == S.inodes[ino].index_block IN
    clean_inode(
        IF ~sb_bread_ok(bno, bad) THEN S
        ELSE memset_block(
                 IF S_ISDIR(S.inodes[ino].i_mode) THEN S
                 ELSE free_data_blocks(S, S.iblock[bno],
                                       S.inodes[ino].i_blocks - 1, 0, bad),
                 bno),
        ino, bno)

\* ouichefs_remove(dir, inode): [st, ret].
ouichefs_remove(S, dir, ino, bad, t) ==
    LET dbno == S.inodes[dir].index_block IN
    IF ~sb_bread_ok(dbno, bad) THEN [st |-> S, ret |-> "EIO"]
    ELSE [st |-> remove_blocks(
                     remove_entry(S, dir, ino,
                         scan_dir(S.dblock[dbno], OUICHEFS_MAX_SUBFILES,
                                  ino, 0, -1), t),
                     ino, bad),
          ret |-> "OK"]

\* The default comparator with its operands exchanged.
strategy_mtime_newest(S, a, b) ==
    S.inodes[b].i_mtime - S.inodes[a].i_mtime

\* ------------------------------------------------------------------ strategies
\* The comparators return a 64-bit difference as a C int.  Times and sizes of
\* the model stay far below 2^31, where that conversion changes nothing (and
\* 2^31 is not a number TLC represents), so the difference is returned as is.
\* ouichefs_fblocks_strategy_mtime(a, b): a is the victim, b the candidate.
ouichefs_fblocks_strategy_mtime(S, a, b) ==
    S.inodes[a].i_mtime - S.inodes[b].i_mtime

\* ouichefs_strategy_size(a, b) of ouichefs_strategy_changer.c
ouichefs_strategy_size(S, a, b) ==
    S.inodes[b].i_size - S.inodes[a].i_size

\* strategy_by_size(a, b) of strategy_changer.c
strategy_by_size(S, a, b) ==
    S.inodes[a].i_size - S.inodes[b].i_size

Strategies == {"ouichefs_fblocks_strategy_mtime", "ouichefs_strategy_size",
               "strategy_by_size"}

\* The module that holds the code of a comparator ("ouichefs" is never unloaded
\* while a volume is mounted).
ModuleOf(fn) ==
    CASE fn = "ouichefs_fblocks_strategy_mtime" -> "ouichefs"
      [] fn = "ouichefs_strategy_size" -> "ouichefs_strategy_changer"
      [] fn = "strategy_by_size" -> "strategy_changer"
      [] OTHER -> "none"

\* (*ouichefs_fblocks_strategy)(a, b)
call_strategy(fn, S, a, b) ==
    CASE fn = "ouichefs_fblocks_strategy_mtime" ->
             ouichefs_fblocks_strategy_mtime(S, a, b)
      [] fn = "ouichefs_strategy_size" -> ouichefs_strategy_size(S, a, b)
      [] fn = "strategy_by_size" -> strategy_by_size(S, a, b)
      [] OTHER -> 0

\* ------------------------------------------------------------------ eviction
NoVictim == [parent |-> NULL, inode |-> NULL]

\* ouichefs_fblocks_action without the test of i_count.
ouichefs_fblocks_action_any(S, fn, dir, ino, victim) ==
    LET ret == IF victim.inode = NULL THEN 1
               ELSE IF fn # "NULL"
                    THEN call_strategy(fn, S, victim.inode, ino)
                    ELSE 0
    IN IF ret > 0 THEN [parent |-> dir, inode |-> ino] ELSE victim

\* ouichefs_fblocks_action with the test of i_count inverted.
ouichefs_fblocks_action_busy(S, fn, dir, ino, victim) ==
    IF S.i_count[ino] <= 1 THEN victim
    ELSE LET ret == IF victim.inode = NULL THEN 1
                    ELSE IF fn # "NULL"
                         THEN call_strategy(fn, S, victim.inode, ino)
                         ELSE 0
         IN IF ret > 0 THEN [parent |-> dir, inode |-> ino] ELSE victim

\* ouichefs_fblocks_action that also replaces the victim on a tie.
ouichefs_fblocks_action_last(S, fn, dir, ino, victim) ==
    IF S.i_count[ino] > 1 THEN victim
    ELSE LET ret == IF victim.inode = NULL THEN 1
                    ELSE IF fn # "NULL"
                         THEN call_strategy(fn, S, victim.inode, ino)
                         ELSE 0
         IN IF ret >= 0 THEN [parent |-> dir, inode |-> ino] ELSE victim

\* ouichefs_fblocks_action(dir, inode, &victim): the new victim record.
ouichefs_fblocks_action(S, fn, dir, ino, victim) ==
    IF S.i_count[ino] > 1 THEN victim
    ELSE LET ret == IF victim.inode = NULL THEN 1
                    ELSE IF fn # "NULL"
                         THEN call_strategy(fn, S, victim.inode, ino)
                         ELSE 0
         IN IF ret > 0 THEN [parent |-> dir, inode |-> ino] ELSE victim

\* ouichefs_iget(sb, ino) of ouichefs_iterate on a directory: the reference it
\* takes is never put (the counter is capped at MaxCount).
iget_dir(cnt, ino) ==
    [cnt EXCEPT ![ino] = IF @ < MaxCount THEN @ + 1 ELSE @]

\* ouichefs_iterate(dir, ouichefs_fblocks_action, &victim), from slot i on:
\* acc is [victim, i_count, called]; called records that the comparator the
\* pointer ouichefs_fblocks_strategy names has been called.
strategy_called(S, fn, ino, victim) ==
    S.i_count[ino] <= 1 /\ victim.inode # NULL /\ fn # "NULL"

RECURSIVE ouichefs_iterate(_, _, _, _, _, _)
ouichefs_iterate(S, fn, dir, i, acc, bad) ==
    LET dbno == S.inodes[dir].index_block IN
    IF ~sb_bread_ok(dbno, bad) THEN acc
    ELSE IF i >= OUICHEFS_MAX_SUBFILES THEN acc
    ELSE LET f == S.dblock[dbno][i] IN
         IF f.inode = 0 THEN acc
         ELSE LET mode == S.inodes[f.inode].i_mode
                  acc1 ==
                    IF S_ISDIR(mode)
                    THEN ouichefs_iterate(S, fn, f.inode, 0,
                             [acc EXCEPT !.i_count = iget_dir(@, f.inode)], bad)
                    ELSE IF S_ISREG(mode)
                    THEN [acc EXCEPT !.victim =
                             ouichefs_fblocks_action(S, fn, dir, f.inode, @),
                           !.called = @ \/
                             strategy_called(S, fn, f.inode, acc.victim)]
                    ELSE acc
              IN ouichefs_iterate(S, fn, dir, i + 1, acc1, bad)

\* The dentry of a removed inode is dropped by the VFS (d_delete, dput), which
\* puts the reference the dentry held.
vfs_d_delete(S, ino) ==
    [S EXCEPT !.i_count[ino] = IF @ > 0 THEN @ - 1 ELSE @]

\* The result of ouichefs_fblocks once ouichefs_remove returned r.
fblocks_removed(r, victim) ==
    [st |-> IF r.ret = "OK" THEN vfs_d_delete(r.st, victim.inode) ELSE r.st,
     ret |-> 0, victim |-> victim, removed |-> r.ret = "OK"]

\* ouichefs_fblocks after the scan: acc is what ouichefs_iterate returned.
fblocks_victim(S, fn, mods, acc, bad, t) ==
    LET \* a call through the pointer into a module that has been unloaded
        dangling == acc.called /\ ModuleOf(fn) \notin mods
        S1 == [S EXCEPT !.i_count = acc.i_count, !.corrupt = @ \/ dangling]
    IN IF acc.victim.inode = NULL
       THEN [st |-> S1, ret |-> -1, victim |-> NoVictim, removed |-> FALSE]
       ELSE fblocks_removed(
                ouichefs_remove(S1, acc.victim.parent, acc.victim.inode,
                                bad, t),
                acc.victim)

\* ouichefs_fblocks(dir): [st, ret, victim, removed].  Both deletion routes
\* (ouichefs_remove, and vfs_unlink which calls ouichefs_unlink) end in
\* ouichefs_remove, whose result is ignored.
ouichefs_fblocks(S, fn, mods, dir, bad, t) ==
    fblocks_victim(S, fn, mods,
        ouichefs_iterate(S, fn, dir, 0,
            [victim |-> NoVictim, i_count |-> S.i_count, called |-> FALSE],
            bad),
        bad, t)

\* ------------------------------------------------------------------ lookup
\* The scan of ouichefs_lookup: the inode number of the first entry whose
\* name compares equal, 0 when the scan ends at a zero entry or at the end of
\* the block.
RECURSIVE dir_find(_, _, _)
dir_find(files, name, i) ==
    IF i >= OUICHEFS_MAX_SUBFILES THEN 0
    ELSE IF files[i].inode = 0 THEN 0
    ELSE IF strncmp_eq(files[i].filename, name) THEN files[i].inode
    ELSE dir_find(files, name, i + 1)

\* ouichefs_lookup(dir, dentry): [st, ret, ino]; ino = 0 is the negative
\* dentry.  The reference ouichefs_iget takes is the one the dentry holds.
ouichefs_lookup(S, dir, name, bad, t) ==
    LET dbno == S.inodes[dir].index_block IN
    IF Len(name) > OUICHEFS_FILENAME_LEN
    THEN [st |-> S, ret |-> "ENAMETOOLONG", ino |-> 0]
    ELSE IF ~sb_bread_ok(dbno, bad)
    THEN [st |-> S, ret |-> "EIO", ino |-> 0]
    ELSE [st |-> [S EXCEPT !.inodes[dir].i_atime = t],
          ret |-> "OK", ino |-> dir_find(S.dblock[dbno], name, 0)]

\* ------------------------------------------------------------------ create
\* ouichefs_new_inode once get_free_block returned gb for the inode ino: the
\* inode is rolled back or initialised.
new_inode_init(gb, ino, mode, t) ==
    IF gb.ret = 0
    THEN \* put_inode: iput(inode); put_ino: put_inode(sbi, ino)
         [st |-> put_inode([gb.st EXCEPT !.i_count[ino] = @ - 1], ino),
          ret |-> "ENOSPC", ino |-> 0]
    ELSE [st |-> [gb.st EXCEPT !.inodes[ino] =
                    [@ EXCEPT !.index_block = gb.ret,
                              !.i_mode = mode, !.i_uid = 1, !.i_gid = 1,
                              !.i_blocks = 1,
                              !.i_size = IF S_ISDIR(mode) THEN 4096 ELSE 0,
                              !.i_nlink = IF S_ISDIR(mode) THEN 2 ELSE 1,
                              !.i_ctime = t, !.i_atime = t, !.i_mtime = t]],
          ret |-> "OK", ino |-> ino]

\* ouichefs_new_inode once get_free_inode returned gi: the inode is fetched
\* (ouichefs_iget) and its index block allocated.
new_inode_block(gi, mode, t) ==
    IF gi.ret = 0 THEN [st |-> gi.st, ret |-> "ENOSPC", ino |-> 0]
    ELSE new_inode_init(
             get_free_block([gi.st EXCEPT !.i_count[gi.ret] = @ + 1]),
             gi.ret, mode, t)

\* ouichefs_new_inode that looks at the free blocks only after it has taken
\* the inode, and does not give the inode back.
new_inode_noblock(gi, mode, t) ==
    IF gi.ret = 0 \/ gi.st.nr_free_blocks = 0
    THEN [st |-> gi.st, ret |-> "ENOSPC", ino |-> 0]
    ELSE new_inode_block(gi, mode, t)

ouichefs_new_inode_norollback(S, dir, mode, t) ==
    IF ~S_ISDIR(mode) /\ ~S_ISREG(mode)
    THEN [st |-> S, ret |-> "EINVAL", ino |-> 0]
    ELSE IF S.nr_free_inodes = 0
    THEN [st |-> S, ret |-> "ENOSPC", ino |-> 0]
    ELSE new_inode_noblock(get_free_inode(S), mode, t)

\* ouichefs_new_inode(dir, mode): [st, ret, ino].
ouichefs_new_inode(S, dir, mode, t) ==
    IF ~S_ISDIR(mode) /\ ~S_ISREG(mode)
    THEN [st |-> S, ret |-> "EINVAL", ino |-> 0]
    ELSE IF S.nr_free_inodes = 0 \/ S.nr_free_blocks = 0
    THEN [st |-> S, ret |-> "ENOSPC", ino |-> 0]
    ELSE new_inode_block(get_free_inode(S), mode, t)

\* The first free slot of the parent index:
\*   for (i = 0; i < OUICHEFS_MAX_SUBFILES; i++)
\*       if (dblock->files[i].inode == 0) break;
RECURSIVE first_free_slot(_, _)
first_free_slot(files, i) ==
    IF i >= OUICHEFS_MAX_SUBFILES THEN i
    ELSE IF files[i].inode = 0 THEN i
    ELSE first_free_slot(files, i + 1)

\* The entry of the new inode is written at slot i of the parent index and
\* the parent's times and link count are updated.
create_entry(S, dir, name, mode, ino, i, t) ==
    LET dbno == S.inodes[dir].index_block
        S2 == IF i \in Slots
              THEN [S EXCEPT !.dblock[dbno][i] =
                       [inode |-> ino, filename |-> strncpy(name)]]
              ELSE \* dblock->files[OUICHEFS_MAX_SUBFILES] is written
                   [S EXCEPT !.corrupt = TRUE]
    IN [st |-> [S2 EXCEPT !.inodes[dir] =
                  [@ EXCEPT !.i_mtime = t, !.i_atime = t, !.i_ctime = t,
                            !.i_nlink = IF S_ISDIR(mode) THEN @ + 1 ELSE @]],
        ret |-> "OK", slot |-> i]

\* The tail of ouichefs_create once the inode ino is allocated: the index
\* block is scrubbed, the entry registered, the parent updated.
create_register(S, dir, name, mode, ino, bad, t) ==
    LET bno == S.inodes[ino].index_block IN
    IF ~sb_bread_ok(bno, bad)
    THEN \* iput: put_block, put_inode, iput(inode)
         [st |-> [put_inode(put_block(S, bno), ino)
                     EXCEPT !.i_count[ino] = @ - 1],
          ret |-> "EIO", slot |-> NULL]
    ELSE create_entry(memset_block(S, bno), dir, name, mode, ino,
                      first_free_slot(S.dblock[S.inodes[dir].index_block], 0),
                      t)

\* The result of ouichefs_create once the registration returned cr.
create_result(cr, ni, fb) ==
    [st |-> cr.st, ret |-> cr.ret,
     ino |-> IF cr.ret = "OK" THEN ni.ino ELSE 0, slot |-> cr.slot,
     evicted |-> fb.removed, victim |-> fb.victim]

\* ouichefs_create once ouichefs_new_inode returned ni.
create_insert(ni, fb, dir, name, mode, bad, t) ==
    IF ni.ret # "OK"
    THEN [st |-> ni.st, ret |-> ni.ret, ino |-> 0, slot |-> NULL,
          evicted |-> fb.removed, victim |-> fb.victim]
    ELSE create_result(
             create_register(ni.st, dir, name, mode, ni.ino, bad, t), ni, fb)

\* ouichefs_create once the check of the parent index is done: fb is what
\* ouichefs_fblocks returned (ret = 0 when the index was not full).
create_alloc(fb, dir, name, mode, bad, t) ==
    IF fb.ret # 0
    THEN [st |-> fb.st, ret |-> "EMLINK", ino |-> 0, slot |-> NULL,
          evicted |-> FALSE, victim |-> NoVictim]
    ELSE create_insert(ouichefs_new_inode(fb.st, dir, mode, t), fb,
                       dir, name, mode, bad, t)

\* ouichefs_create(dir, dentry, mode, excl):
\* [st, ret, ino, slot, evicted, victim].
ouichefs_create(S, fn, mods, dir, name, mode, bad, t) ==
    LET dbno == S.inodes[dir].index_block
        none == [st |-> S, ino |-> 0, slot |-> NULL, evicted |-> FALSE,
                 victim |-> NoVictim]
    IN
    IF strlen(name) > OUICHEFS_FILENAME_LEN
    THEN none @@ [ret |-> "ENAMETOOLONG"]
    ELSE IF ~sb_bread_ok(dbno, bad) THEN none @@ [ret |-> "EIO"]
    ELSE create_alloc(
             IF S.dblock[dbno][OUICHEFS_MAX_SUBFILES - 1].inode # 0
             THEN ouichefs_fblocks(S, fn, mods, dir, bad, t)
             ELSE [st |-> S, ret |-> 0, victim |-> NoVictim,
                   removed |-> FALSE],
             dir, name, mode, bad, t)

\* ------------------------------------------------------------------ rename
\* The first loop of ouichefs_rename over the target directory block (every
\* slot is compared, zero entries included): [f_pos, new_pos, exists].
RECURSIVE rename_scan(_, _, _, _, _, _, _)
rename_scan(files, same, old_name, new_name, i, f_pos, new_pos) ==
    IF i >= OUICHEFS_MAX_SUBFILES
    THEN [f_pos |-> f_pos, new_pos |-> new_pos, exists |-> FALSE]
    ELSE LET f_pos1 == IF same /\ strncmp_eq(files[i].filename, old_name)
                       THEN i ELSE f_pos
         IN IF strncmp_eq(files[i].filename, new_name)
            THEN [f_pos |-> f_pos1, new_pos |-> new_pos, exists |-> TRUE]
            ELSE rename_scan(files, same, old_name, new_name, i + 1, f_pos1,
                     IF new_pos < 0 /\ files[i].inode = 0 THEN i ELSE new_pos)

\* The source directory block as the second loop of ouichefs_rename reads it:
\*   for (i = 0; OUICHEFS_MAX_SUBFILES; i++)
\* has no bound, so a full block is read past its end; oob is the inode number
\* the memory after the block holds at files[OUICHEFS_MAX_SUBFILES], and the
\* entry after that one reads as zero.
beyond_block(files, oob) ==
    [j \in 0..(OUICHEFS_MAX_SUBFILES + 1) |->
        IF j \in Slots THEN files[j]
        ELSE IF j = OUICHEFS_MAX_SUBFILES
             THEN [inode |-> oob, filename |-> ZeroName]
             ELSE ZeroFile]

\* Cross-parent ouichefs_rename: the entry is inserted in the new parent.
rename_insert(S, new_dir, src, new_name, new_pos, t) ==
    [S EXCEPT !.dblock[S.inodes[new_dir].index_block][new_pos] =
                  [inode |-> src, filename |-> strncpy(new_name)],
              \* Update new parent inode metadata
              !.inodes[new_dir] =
                  [@ EXCEPT !.i_mtime = t, !.i_atime = t, !.i_ctime = t,
                            !.i_nlink = IF S_ISDIR(S.inodes[src].i_mode)
                                        THEN @ + 1 ELSE @]]

\* Cross-parent ouichefs_rename: the entry leaves the old parent.  ext is the
\* old parent's block as the search loop reads it, sc the loop's result.
rename_remove(S, old_dir, src, ext, sc, t) ==
    [st |-> [S EXCEPT
               \* Remove file from old parent directory
               !.dblock[S.inodes[old_dir].index_block] =
                   compact_dir(ext, sc.f_id, sc.nr_subs),
               !.corrupt = @ \/ (\E j \in compact_writes(sc.f_id, sc.nr_subs) :
                                     j \notin Slots)
                            \/ (\E j \in compact_reads(sc.f_id, sc.nr_subs) :
                                     j \notin Slots),
               \* Update old parent inode metadata
               !.inodes[old_dir] =
                   [@ EXCEPT !.i_mtime = t, !.i_atime = t, !.i_ctime = t,
                             !.i_nlink = IF S_ISDIR(S.inodes[src].i_mode)
                                         THEN @ - 1 ELSE @]],
     ret |-> "OK",
     oob_read |-> sc.nr_subs >= OUICHEFS_MAX_SUBFILES]

\* Cross-parent ouichefs_rename: the search for src in the old parent.
rename_search(S, old_dir, src, ext, t) ==
    rename_remove(S, old_dir, src, ext,
                  scan_dir(ext, OUICHEFS_MAX_SUBFILES + 2, src, 0, -1), t)

\* Cross-parent ouichefs_rename after the entry is inserted in the new
\* parent: the old parent's block is read.
rename_old(S, old_dir, src, bad, oob, t) ==
    LET obno == S.inodes[old_dir].index_block IN
    IF ~sb_bread_ok(obno, bad)
    THEN [st |-> S, ret |-> "EIO", oob_read |-> FALSE]
    ELSE rename_search(S, old_dir, src, beyond_block(S.dblock[obno], oob), t)

\* The cross-parent part of ouichefs_rename after the target checks: insert in
\* the new parent, then remove from the old one.
rename_move(S, old_dir, new_dir, src, new_name, new_pos, bad, oob, t) ==
    rename_old(rename_insert(S, new_dir, src, new_name, new_pos, t),
               old_dir, src, bad, oob, t)

\* ouichefs_rename that moves the entry also within one directory: inserted at
\* the first free slot, then removed from its old slot.
ouichefs_rename_relocate(S, old_dir, old_name, src, new_dir, new_name, flagged, bad, oob, t) ==
    LET nbno == S.inodes[new_dir].index_block
        fail(e) == [st |-> S, ret |-> e, oob_read |-> FALSE]
        rs == rename_scan(S.dblock[nbno], new_dir = old_dir, old_name,
                          new_name, 0, -1, -1)
    IN
    IF flagged THEN fail("EINVAL")
    ELSE IF strlen(new_name) > OUICHEFS_FILENAME_LEN THEN fail("ENAMETOOLONG")
    ELSE IF ~sb_bread_ok(nbno, bad) THEN fail("EIO")
    ELSE IF rs.exists THEN fail("EEXIST")
    ELSE IF rs.new_pos < 0 THEN fail("EMLINK")
    ELSE rename_move(S, old_dir, new_dir, src, new_name, rs.new_pos,
                     bad, oob, t)

\* ouichefs_rename without the -EEXIST and -EMLINK exits: the entry is written
\* over the slot the scan stopped at.
ouichefs_rename_overwrite(S, old_dir, old_name, src, new_dir, new_name, flagged, bad, oob, t) ==
    LET nbno == S.inodes[new_dir].index_block
        fail(e) == [st |-> S, ret |-> e, oob_read |-> FALSE]
        rs == rename_scan(S.dblock[nbno], new_dir = old_dir, old_name,
                          new_name, 0, -1, -1)
        pos == IF old_dir = new_dir /\ rs.f_pos \in Slots THEN rs.f_pos
               ELSE IF rs.new_pos \in Slots THEN rs.new_pos
               ELSE OUICHEFS_MAX_SUBFILES - 1
    IN
    IF flagged THEN fail("EINVAL")
    ELSE IF strlen(new_name) > OUICHEFS_FILENAME_LEN THEN fail("ENAMETOOLONG")
    ELSE IF ~sb_bread_ok(nbno, bad) THEN fail("EIO")
    ELSE IF old_dir = new_dir
    THEN [st |-> [S EXCEPT !.dblock[nbno][pos].filename = strncpy(new_name)],
          ret |-> "OK", oob_read |-> FALSE]
    ELSE rename_move(S, old_dir, new_dir, src, new_name, pos, bad, oob, t)

\* ouichefs_rename once the first loop returned rs.
rename_checked(S, rs, old_dir, src, new_dir, new_name, bad, oob, t) ==
    IF rs.exists THEN [st |-> S, ret |-> "EEXIST", oob_read |-> FALSE]
    ELSE IF old_dir = new_dir
    THEN \* just rename entry
         [st |-> IF rs.f_pos \in Slots
                 THEN [S EXCEPT !.dblock[S.inodes[new_dir].index_block]
                                        [rs.f_pos].filename = strncpy(new_name)]
                 ELSE [S EXCEPT !.corrupt = TRUE],
          ret |-> "OK", oob_read |-> FALSE]
    ELSE IF rs.new_pos < 0
    THEN [st |-> S, ret |-> "EMLINK", oob_read |-> FALSE]
    ELSE rename_move(S, old_dir, new_dir, src, new_name, rs.new_pos,
                     bad, oob, t)

\* ouichefs_rename(old_dir, old_dentry, new_dir, new_dentry, flags):
\* [st, ret, oob_read]; src is d_inode(old_dentry), flagged is
\* flags & (RENAME_EXCHANGE | RENAME_WHITEOUT).
ouichefs_rename(S, old_dir, old_name, src, new_dir, new_name, flagged, bad, oob, t) ==
    LET nbno == S.inodes[new_dir].index_block
        fail(e) == [st |-> S, ret |-> e, oob_read |-> FALSE]
    IN
    IF flagged THEN fail("EINVAL")
    ELSE IF strlen(new_name) > OUICHEFS_FILENAME_LEN THEN fail("ENAMETOOLONG")
    ELSE IF ~sb_bread_ok(nbno, bad) THEN fail("EIO")
    ELSE rename_checked(S,
             rename_scan(S.dblock[nbno], new_dir = old_dir, old_name,
                         new_name, 0, -1, -1),
             old_dir, src, new_dir, new_name, bad, oob, t)

\* ------------------------------------------------------------------ unlink, rmdir
\* ouichefs_unlink(dir, dentry): [st, ret].
ouichefs_unlink(S, dir, ino, bad, t) == ouichefs_remove(S, dir, ino, bad, t)

\* ouichefs_rmdir without the test of the directory block's first entry.
ouichefs_rmdir_nlinkonly(S, dir, ino, bad, t) ==
    LET bno == S.inodes[ino].index_block IN
    IF S.inodes[ino].i_nlink > 2 THEN [st |-> S, ret |-> "ENOTEMPTY"]
    ELSE IF ~sb_bread_ok(bno, bad) THEN [st |-> S, ret |-> "EIO"]
    ELSE ouichefs_unlink(S, dir, ino, bad, t)

\* ouichefs_rmdir(dir, dentry): [st, ret].
ouichefs_rmdir(S, dir, ino, bad, t) ==
    LET bno == S.inodes[ino].index_block IN
    IF S.inodes[ino].i_nlink > 2 THEN [st |-> S, ret |-> "ENOTEMPTY"]
    ELSE IF ~sb_bread_ok(bno, bad) THEN [st |-> S, ret |-> "EIO"]
    ELSE IF S.dblock[bno][0].inode # 0 THEN [st |-> S, ret |-> "ENOTEMPTY"]
    ELSE ouichefs_unlink(S, dir, ino, bad, t)

\* ------------------------------------------------------------------ file write
\* A write of one block of data at logical block `slot` of a regular file: the
\* data block is allocated on demand and recorded in the index block, the
\* block count is the number of used slots plus one.  [st, ret].
file_write(S, ino, slot, t) ==
    LET bno == S.inodes[ino].index_block
        stamp(X) == [X EXCEPT !.inodes[ino] =
                        [@ EXCEPT !.i_mtime = t, !.i_ctime = t,
                                  !.i_size = IF @ < (slot + 1) * 4096
                                             THEN (slot + 1) * 4096 ELSE @]]
    IN
    IF S.iblock[bno][slot] # 0 THEN [st |-> stamp(S), ret |-> "OK"]
    ELSE IF S.nr_free_blocks = 0 THEN [st |-> S, ret |-> "ENOSPC"]
    ELSE LET gb == get_free_block(S) IN
         IF gb.ret = 0 THEN [st |-> gb.st, ret |-> "ENOSPC"]
         ELSE [st |-> stamp([gb.st EXCEPT !.iblock[bno][slot] = gb.ret,
                                          !.data[gb.ret] = 1,
                                          !.inodes[ino].i_blocks = @ + 1]),
               ret |-> "OK"]

\* ------------------------------------------------------------------ tree
\* The inode numbers the directory block of dir lists.
Children(S, dir) ==
    { S.dblock[S.inodes[dir].index_block][j].inode : j \in Slots } \ {0}

RECURSIVE Reach(_, _, _)
Reach(S, set, n) ==
    IF n = 0 THEN set
    ELSE Reach(S, set \cup UNION { Children(S, d) :
                   d \in { x \in set : S_ISDIR(S.inodes[x].i_mode) } }, n - 1)

\* dir and everything below it.
Subtree(S, dir) == Reach(S, {dir}, NrInodes)

\* The directories of the tree.
Dirs(S) == { d \in Subtree(S, RootIno) : S_ISDIR(S.inodes[d].i_mode) }

\* ------------------------------------------------------------------ initial state
NoOp == [op |-> "none", ret |-> "OK", dir |-> NULL, name |-> <<>>,
         ino |-> NULL, victim |-> NoVictim, new_dir |-> NULL,
         new_name |-> <<>>, oob_read |-> FALSE, bad |-> {}]

\* A freshly made volume: the root directory alone, its index block zero.
Init ==
    /\ dblock = [b \in Blocks |-> ZeroDir]
    /\ iblock = [b \in Blocks |-> ZeroIdx]
    /\ data = [b \in Blocks |-> 0]
    /\ inodes = [i \in Inodes |->
                   IF i = RootIno
                   THEN [ZeroInode EXCEPT !.i_mode = "DIR", !.i_size = 4096,
                                          !.i_nlink = 2, !.i_blocks = 1,
                                          !.index_block = RootBlock,
                                          !.i_ctime = 1, !.i_atime = 1,
                                          !.i_mtime = 1]
                   ELSE ZeroInode]
    /\ i_count = [i \in Inodes |-> IF i = RootIno THEN 1 ELSE 0]
    /\ ifree = Inodes \ {RootIno}
    /\ bfree = Blocks \ {RootBlock}
    /\ nr_free_inodes = NrInodes - 1
    /\ nr_free_blocks = NrBlocks - 1
    /\ strategy = "ouichefs_fblocks_strategy_mtime"
    /\ default_strategy = "NULL"
    /\ saved_strategy = "NULL"
    /\ loaded = {"ouichefs"}
    /\ now = 1
    /\ corrupt = FALSE
    /\ last = NoOp
    /\ ops = 0

\* The file-system variables take the values of the record S; a call that
\* changed the volume counts as one operation.
SetFs(S) ==
    /\ dblock' = S.dblock
    /\ iblock' = S.iblock
    /\ data' = S.data
    /\ inodes' = S.inodes
    /\ i_count' = S.i_count
    /\ ifree' = S.ifree
    /\ bfree' = S.bfree
    /\ nr_free_inodes' = S.nr_free_inodes
    /\ nr_free_blocks' = S.nr_free_blocks
    /\ corrupt' = S.corrupt
    /\ ops' = IF S = FsState THEN ops ELSE ops + 1

modvars == <<strategy, default_strategy, saved_strategy, loaded>>

fsvars == <<dblock, iblock, data, inodes, i_count, ifree, bfree,
            nr_free_inodes, nr_free_blocks, corrupt>>

\* ------------------------------------------------------------------ operations
\* No system call is in progress, memory is intact, the budget is not used up.
Idle == ~corrupt /\ last.op = "none" /\ ops < MaxOps

\* dir is an allocated directory (every allocated directory is in the tree).
IsDir(dir) == S_ISDIR(inodes[dir].i_mode) /\ dir \notin ifree

\* ino is an allocated regular file.
IsReg(ino) == S_ISREG(inodes[ino].i_mode) /\ ino \notin ifree

\* The directory block of dir.
DirBlock(dir) == dblock[inodes[dir].index_block]

\* create(2)/mkdir(2) on a name the VFS found absent in dir.
Create(dir, name, mode, bad) ==
    /\ Idle
    /\ IsDir(dir)
    /\ dir_find(DirBlock(dir), name, 0) = 0
    /\ LET return(r) ==
               /\ SetFs(r.st)
               /\ last' = [NoOp EXCEPT !.op = "create", !.ret = r.ret,
                                       !.dir = dir, !.name = name,
                                       !.ino = r.ino, !.victim = r.victim,
                                       !.bad = bad]
       IN return(ouichefs_create(FsState, strategy, loaded, dir, name, mode,
                                 bad, now))
    /\ UNCHANGED <<modvars, now>>

\* A path walk that resolves name in dir.
Lookup(dir, name, bad) ==
    /\ Idle
    /\ IsDir(dir)
    /\ LET return(r) ==
               /\ SetFs(r.st)
               /\ last' = [NoOp EXCEPT !.op = "lookup", !.ret = r.ret,
                                       !.dir = dir, !.name = name,
                                       !.ino = r.ino, !.bad = bad]
       IN return(ouichefs_lookup(FsState, dir, name, bad, now))
    /\ UNCHANGED <<modvars, now>>

\* unlink(2) of a regular file the VFS resolved in dir.
Unlink(dir, name, bad) ==
    /\ Idle
    /\ IsDir(dir)
    /\ LET return(r, ino) ==
               /\ ino # 0
               /\ S_ISREG(inodes[ino].i_mode)
               /\ SetFs(IF r.ret = "OK" THEN vfs_d_delete(r.st, ino)
                        ELSE r.st)
               /\ last' = [NoOp EXCEPT !.op = "unlink", !.ret = r.ret,
                                       !.dir = dir, !.name = name,
                                       !.ino = ino, !.bad = bad]
           call(ino) == return(ouichefs_unlink(FsState, dir, ino, bad, now),
                               ino)
       IN call(dir_find(DirBlock(dir), name, 0))
    /\ UNCHANGED <<modvars, now>>

\* rmdir(2) of a directory the VFS resolved in dir.
Rmdir(dir, name, bad) ==
    /\ Idle
    /\ IsDir(dir)
    /\ LET return(r, ino) ==
               /\ ino # 0
               /\ S_ISDIR(inodes[ino].i_mode)
               /\ SetFs(IF r.ret = "OK" THEN vfs_d_delete(r.st, ino)
                        ELSE r.st)
               /\ last' = [NoOp EXCEPT !.op = "rmdir", !.ret = r.ret,
                                       !.dir = dir, !.name = name,
                                       !.ino = ino, !.bad = bad]
           call(ino) == return(ouichefs_rmdir(FsState, dir, ino, bad, now),
                               ino)
       IN call(dir_find(DirBlock(dir), name, 0))
    /\ UNCHANGED <<modvars, now>>

\* rename(2): the VFS resolved old_name in old_dir and refuses to move a
\* directory below itself.  oob is what the memory after the source block
\* holds (read only when the source block is full).
Rename(old_dir, old_name, new_dir, new_name, flagged, bad, oob) ==
    /\ Idle
    /\ IsDir(old_dir)
    /\ IsDir(new_dir)
    /\ LET return(r, src) ==
               /\ src # 0
               /\ new_dir \notin Subtree(FsState, src)
               /\ SetFs(r.st)
               /\ last' = [NoOp EXCEPT !.op = "rename", !.ret = r.ret,
                                       !.dir = old_dir, !.name = old_name,
                                       !.ino = src, !.new_dir = new_dir,
                                       !.new_name = new_name,
                                       !.oob_read = r.oob_read, !.bad = bad]
           call(src) == return(ouichefs_rename(FsState, old_dir, old_name,
                                   src, new_dir, new_name, flagged, bad, oob,
                                   now),
                               src)
       IN call(dir_find(DirBlock(old_dir), old_name, 0))
    /\ UNCHANGED <<modvars, now>>

\* unlocked_ioctl(QUICK_CLEAN) of fs.c: ouichefs_fblocks(root_inode), then
\* return -EINVAL.
Reclaim(bad) ==
    /\ Idle
    /\ LET return(r) ==
               /\ SetFs(r.st)
               /\ last' = [NoOp EXCEPT !.op = "reclaim", !.ret = "EINVAL",
                                       !.dir = RootIno, !.victim = r.victim,
                                       !.bad = bad]
       IN return(ouichefs_fblocks(FsState, strategy, loaded, RootIno, bad,
                                  now))
    /\ UNCHANGED <<modvars, now>>

\* write(2) of one block at logical block slot of the regular file ino.
Write(ino, slot) ==
    /\ Idle
    /\ IsReg(ino)
    /\ LET return(r) ==
               /\ SetFs(r.st)
               /\ last' = [NoOp EXCEPT !.op = "write", !.ret = r.ret,
                                       !.ino = ino]
       IN return(file_write(FsState, ino, slot, now))
    /\ UNCHANGED <<modvars, now>>

\* The system call returns to its caller.
Return ==
    /\ ~corrupt
    /\ last.op # "none"
    /\ last.op # "scan"
    /\ last' = NoOp
    /\ UNCHANGED <<fsvars, modvars, now, ops>>

\* Another holder takes a reference on the cached inode of a regular file.
Grab(ino) ==
    /\ Idle
    /\ IsReg(ino)
    /\ i_count[ino] < MaxCount
    /\ i_count' = [i_count EXCEPT ![ino] = @ + 1]
    /\ UNCHANGED <<dblock, iblock, data, inodes, ifree, bfree, nr_free_inodes,
                   nr_free_blocks, corrupt, modvars, now, last, ops>>

\* A holder other than the dentry puts its reference.
Release(ino) ==
    /\ Idle
    /\ i_count[ino] > (IF ino \in ifree THEN 0 ELSE 1)
    /\ i_count' = [i_count EXCEPT ![ino] = @ - 1]
    /\ UNCHANGED <<dblock, iblock, data, inodes, ifree, bfree, nr_free_inodes,
                   nr_free_blocks, corrupt, modvars, now, last, ops>>

\* Time passes.
Tick ==
    /\ Idle
    /\ now < MaxTime
    /\ now' = now + 1
    /\ UNCHANGED <<fsvars, modvars, last, ops>>

\* insmod ouichefs_strategy_changer.ko: ouichefs_strategy_changer_init
LoadChanger ==
    /\ Idle
    /\ "ouichefs_strategy_changer" \notin loaded
    /\ default_strategy' = strategy
    /\ strategy' = "ouichefs_strategy_size"
    /\ loaded' = loaded \cup {"ouichefs_strategy_changer"}
    /\ ops' = ops + 1
    /\ UNCHANGED <<fsvars, now, saved_strategy, last>>

\* rmmod ouichefs_strategy_changer: ouichefs_strategy_changer_exit
UnloadChanger ==
    /\ Idle
    /\ "ouichefs_strategy_changer" \in loaded
    /\ strategy' = default_strategy
    /\ loaded' = loaded \ {"ouichefs_strategy_changer"}
    /\ ops' = ops + 1
    /\ UNCHANGED <<fsvars, now, default_strategy, saved_strategy, last>>

\* insmod strategy_changer.ko: uname_init
LoadChanger2 ==
    /\ Idle
    /\ "strategy_changer" \notin loaded
    /\ saved_strategy' = strategy
    /\ strategy' = "strategy_by_size"
    /\ loaded' = loaded \cup {"strategy_changer"}
    /\ ops' = ops + 1
    /\ UNCHANGED <<fsvars, now, default_strategy, last>>

\* rmmod strategy_changer: uname_exit
UnloadChanger2 ==
    /\ Idle
    /\ "strategy_changer" \in loaded
    /\ strategy' = saved_strategy
    /\ loaded' = loaded \ {"strategy_changer"}
    /\ ops' = ops + 1
    /\ UNCHANGED <<fsvars, now, default_strategy, saved_strategy, last>>

\* ------------------------------------------------------------------ the pass in two steps
\* ouichefs_fblocks up to the return of ouichefs_iterate: the victim record is
\* filled, nothing is deleted yet.  No lock is held and no reference is kept
\* on the victim (ouichefs_iterate puts it before the action runs).
FblocksScan ==
    /\ Idle
    /\ LET return(acc) ==
               /\ i_count' = acc.i_count
               /\ corrupt' = (acc.called /\ ModuleOf(strategy) \notin loaded)
               /\ last' = [NoOp EXCEPT !.op = "scan", !.ret = "scanned",
                                       !.dir = RootIno, !.victim = acc.victim]
       IN return(ouichefs_iterate(FsState, strategy, RootIno, 0,
                     [victim |-> NoVictim, i_count |-> i_count,
                      called |-> FALSE], {}))
    /\ ops' = ops + 1
    /\ UNCHANGED <<dblock, iblock, data, inodes, ifree, bfree, nr_free_inodes,
                   nr_free_blocks, modvars, now>>

\* A pass has scanned and found a victim, and no other thread has run since.
Scanned ==
    /\ ~corrupt
    /\ last.op = "scan" /\ last.ret = "scanned"
    /\ last.victim.inode # NULL

\* Another thread opens the victim between the scan and the deletion.
RaceOpen ==
    /\ Scanned
    /\ i_count[last.victim.inode] < MaxCount
    /\ i_count' = [i_count EXCEPT ![last.victim.inode] = @ + 1]
    /\ last' = [last EXCEPT !.ret = "raced"]
    /\ UNCHANGED <<dblock, iblock, data, inodes, ifree, bfree, nr_free_inodes,
                   nr_free_blocks, corrupt, modvars, now, ops>>

\* Another thread unlinks the victim between the scan and the deletion.
RaceUnlink ==
    /\ Scanned
    /\ LET return(r) ==
               SetFs(IF r.ret = "OK"
                     THEN vfs_d_delete(r.st, last.victim.inode) ELSE r.st)
       IN return(ouichefs_unlink(FsState, last.victim.parent,
                                 last.victim.inode, {}, now))
    /\ last' = [last EXCEPT !.ret = "raced"]
    /\ UNCHANGED <<modvars, now>>

\* Another thread renames the victim between the scan and the deletion.
RaceRename(old_name, new_dir, new_name, oob) ==
    /\ Scanned
    /\ IsDir(new_dir)
    /\ dir_find(DirBlock(last.victim.parent), old_name, 0) = last.victim.inode
    /\ LET return(r) == r.ret = "OK" /\ SetFs(r.st)
       IN return(ouichefs_rename(FsState, last.victim.parent, old_name,
                                 last.victim.inode, new_dir, new_name, FALSE,
                                 {}, oob, now))
    /\ last' = [last EXCEPT !.ret = "raced"]
    /\ UNCHANGED <<modvars, now>>

\* The directories another thread may act on while a pass is between its scan
\* and its deletion.
RaceDirs == IF Scanned THEN { d \in Inodes : IsDir(d) } ELSE {}

\* ouichefs_fblocks after the return of ouichefs_iterate: the victim recorded
\* by the scan is deleted through its recorded parent, as it is; when the
\* inode has been freed meanwhile the code works on a stale inode (its index
\* block number is 0): memory and the blocks it then touches are anything.
FblocksDelete ==
    /\ ~corrupt
    /\ last.op = "scan"
    /\ LET v == last.victim.inode
           return(r) == SetFs(r.st)
       IN IF v = NULL
          THEN UNCHANGED <<fsvars, ops>>
          ELSE IF v \in ifree
          THEN /\ corrupt' = TRUE
               /\ UNCHANGED <<dblock, iblock, data, inodes, i_count, ifree,
                              bfree, nr_free_inodes, nr_free_blocks, ops>>
          ELSE return(fblocks_removed(
                          ouichefs_remove(FsState, last.victim.parent, v, {},
                                          now),
                          last.victim))
    /\ last' = [NoOp EXCEPT !.op = "reclaim", !.ret = "EINVAL",
                            !.dir = RootIno, !.victim = last.victim]
    /\ UNCHANGED <<modvars, now>>

\* ------------------------------------------------------------------ inputs
\* The valid names dir holds.
Present(dir) ==
    IF IsDir(dir)
    THEN { n \in ValidNames : dir_find(DirBlock(dir), n, 0) # 0 }
    ELSE {}

\* The names create is called with: the first valid name absent from dir (the
\* code compares names for equality only), and the over-long names.
RECURSIVE FirstAbsent(_, _)
FirstAbsent(dir, names) ==
    IF names = <<>> THEN {}
    ELSE IF dir_find(DirBlock(dir), Head(names), 0) = 0
         THEN {Head(names)}
         ELSE FirstAbsent(dir, Tail(names))

NameOrder == <<(<<1>>), (<<2>>), (<<1, 2>>), (<<2, 1>>), (<<2, 2>>)>>

NewNames(dir) ==
    IF IsDir(dir) THEN FirstAbsent(dir, NameOrder) \cup LongNames ELSE {}

\* An inode number no inode of the volume has.
GarbageIno == NrInodes

\* What the memory after the block of dir may hold where the scan for the
\* inode src reads it.
OobValues(dir, src) ==
    IF IsDir(dir) /\ DirBlock(dir)[OUICHEFS_MAX_SUBFILES - 1].inode # 0
    THEN {0, src, GarbageIno} ELSE {0}

\* The directories and the regular files a system call may be issued on.
CallDirs == IF Idle THEN { d \in Inodes : IsDir(d) } ELSE {}
CallRegs == IF Idle THEN { i \in Inodes : IsReg(i) } ELSE {}
CallInodes == IF Idle THEN Inodes ELSE {}

\* ------------------------------------------------------------------ specifications
\* The directory operations without I/O faults, under the default comparator,
\* at one instant of the clock.
Next ==
    \/ \E d \in CallDirs, m \in Modes : \E n \in NewNames(d) :
          Create(d, n, m, {})
    \/ \E d \in CallDirs : \E n \in Present(d) \cup NewNames(d) :
          Lookup(d, n, {})
    \/ \E d \in CallDirs : \E n \in Present(d) : Unlink(d, n, {})
    \/ \E d \in CallDirs : \E n \in Present(d) : Rmdir(d, n, {})
    \/ \E od \in CallDirs, nd \in CallDirs, fl \in BOOLEAN :
         \E on \in Present(od), nn \in Present(nd) \cup NewNames(nd) :
           \E oob \in OobValues(od, dir_find(DirBlock(od), on, 0)) :
              Rename(od, on, nd, nn, fl, {}, oob)
    \/ \E d \in CallDirs : d = RootIno /\ Reclaim({})
    \/ \E i \in CallRegs : Grab(i)
    \/ \E i \in CallInodes : Release(i)
    \/ Return

Spec == Init /\ [][Next]_vars

\* Creation, writing, removal and reclaiming with a running clock, references
\* held on files, and the comparator modules loaded and unloaded.
NextEvict ==
    \/ \E d \in CallDirs, m \in Modes : \E n \in NewNames(d) :
          Create(d, n, m, {})
    \/ \E d \in CallDirs : \E n \in Present(d) : Unlink(d, n, {})
    \/ \E i \in CallRegs, slot \in ISlots : Write(i, slot)
    \/ \E d \in CallDirs : d = RootIno /\ Reclaim({})
    \/ \E i \in CallRegs : Grab(i)
    \/ \E i \in CallInodes : Release(i)
    \/ Tick
    \/ LoadChanger
    \/ UnloadChanger
    \/ LoadChanger2
    \/ UnloadChanger2
    \/ Return

SpecEvict == Init /\ [][NextEvict]_vars

\* The blocks that cannot be read during one operation: none, or one.
FaultSets == {{}} \cup { {b} : b \in Blocks }

\* Creation, writing and removal on a device that fails to read a block now
\* and then, at one instant of the clock, under the default comparator.
NextFault ==
    \/ \E d \in CallDirs, m \in Modes, bad \in FaultSets :
         \E n \in NewNames(d) : Create(d, n, m, bad)
    \/ \E i \in CallRegs, slot \in ISlots : Write(i, slot)
    \/ \E d \in CallDirs, bad \in FaultSets :
         \E n \in Present(d) : Unlink(d, n, bad)
    \/ \E d \in CallDirs, bad \in FaultSets :
         \E n \in Present(d) : Rmdir(d, n, bad)
    \/ \E d \in CallDirs, bad \in FaultSets : d = RootIno /\ Reclaim(bad)
    \/ Return

SpecFault == Init /\ [][NextFault]_vars


\* An eviction pass whose scan and deletion are separate steps, with another
\* thread opening, unlinking or renaming the victim in between.
NextRace ==
    \/ \E d \in CallDirs, m \in Modes : \E n \in NewNames(d) :
          Create(d, n, m, {})
    \/ \E i \in CallRegs : Grab(i)
    \/ FblocksScan
    \/ RaceOpen
    \/ RaceUnlink
    \/ \E nd \in RaceDirs :
         \E on \in Present(last.victim.parent), nn \in NewNames(nd) :
           \E oob \in OobValues(last.victim.parent, last.victim.inode) :
              RaceRename(on, nd, nn, oob)
    \/ FblocksDelete
    \/ Return

SpecRace == Init /\ [][NextRace]_vars

\* Creation, cross- and same-parent renames and removal with I/O faults: any
\* call may find one block unreadable.
NextFaultMove ==
    \/ \E d \in CallDirs, m \in Modes, bad \in FaultSets :
         \E n \in NewNames(d) : Create(d, n, m, bad)
    \/ \E od \in CallDirs, nd \in CallDirs, bad \in FaultSets :
         \E on \in Present(od), nn \in Present(nd) \cup NewNames(nd) :
           \E oob \in OobValues(od, dir_find(DirBlock(od), on, 0)) :
              Rename(od, on, nd, nn, FALSE, bad, oob)
    \/ \E d \in CallDirs, bad \in FaultSets :
         \E n \in Present(d) : Unlink(d, n, bad)
    \/ Return

SpecFaultMove == Init /\ [][NextFaultMove]_vars

\* ------------------------------------------------------------------ vocabulary of the claims
\* The number of entries of a directory block (the index of its first zero
\* entry, or its capacity).
NrEntries(files) == first_free_slot(files, 0)

\* A directory block is left-packed.
LeftPackedBlock(files) ==
    \A i \in Slots, j \in Slots :
        (i < j /\ files[i].inode = 0) => files[j].inode = 0

\* Every view of block b is zero.
BlockIsZero(b) == dblock[b] = ZeroDir /\ iblock[b] = ZeroIdx /\ data[b] = 0

\* The entries of a directory block as a sequence, and a sequence of entries
\* as a directory block.
EntrySeq(files) == [j \in 1..NrEntries(files) |-> files[j - 1]]
BlockOf(seq) == [j \in Slots |-> IF j < Len(seq) THEN seq[j + 1] ELSE ZeroFile]

\* A sequence without its element at position p (counted from 0).
Without(seq, p) == SubSeq(seq, 1, p) \o SubSeq(seq, p + 2, Len(seq))

\* The slot of dir's block that names the inode ino (NULL when none does).
SlotOf(files, ino) ==
    IF \E j \in Slots : files[j].inode = ino
    THEN CHOOSE j \in Slots : files[j].inode = ino
    ELSE NULL

\* The volume: blocks, inode records, bitmaps and free counts.
disk == <<dblock, iblock, data, inodes, ifree, bfree, nr_free_inodes,
          nr_free_blocks>>

\* A system call is being issued in this step.
Calls(op) == last.op = "none" /\ last'.op = op

\* ------------------------------------------------------------------ C1
\* C1: for every valid name and every mode, after a successful create(dir,
\* name, mode) a lookup(dir, name) returns the inode number create allocated,
\* and the new inode's index block is all zero.
C1_CreateThenLookup ==
    (last.op = "create" /\ last.ret = "OK") =>
        /\ ouichefs_lookup(FsState, last.dir, last.name, {}, now).ino = last.ino
        /\ BlockIsZero(inodes[last.ino].index_block)

\* C1 for the creates that register the entry inside the directory block.
C1_InBounds ==
    (last.op = "create" /\ last.ret = "OK" /\ ~corrupt) =>
        /\ ouichefs_lookup(FsState, last.dir, last.name, {}, now).ino = last.ino
        /\ BlockIsZero(inodes[last.ino].index_block)

\* ------------------------------------------------------------------ C4
\* C4: after any sequence of create, mkdir, unlink, rmdir, rename and eviction
\* passes every directory block is left-packed: no entry after the first zero
\* inode number has a non-zero inode number.
C4_LeftPacked == \A b \in Blocks : LeftPackedBlock(dblock[b])

\* A cross-parent rename has just moved an entry out of a directory that held
\* more than one, and the entries left behind are packed at the front.
C4_Witness ==
    /\ last.op = "rename" /\ last.ret = "OK" /\ last.new_dir # last.dir
    /\ NrEntries(DirBlock(last.dir)) >= 1
    /\ NrEntries(DirBlock(last.new_dir)) >= 2

\* ------------------------------------------------------------------ C5
\* C5: removing the entry at position p of a directory holding k entries
\* leaves the other k-1 entries in slots 0..k-2 in their original order, inode
\* number and name unchanged, and slot k-1 and all later slots zero.  The
\* removals are those of unlink, rmdir and of the eviction pass of reclaim.
C5_Compaction ==
    [][ \A d \in Inodes :
          LET files == DirBlock(d)
              ino == IF last'.op = "reclaim" THEN last'.victim.inode
                     ELSE last'.ino
              hit == \/ /\ (Calls("unlink") \/ Calls("rmdir"))
                        /\ last'.ret = "OK" /\ last'.dir = d
                     \/ /\ Calls("reclaim")
                        /\ last'.victim.parent = d
          IN hit =>
               /\ SlotOf(files, ino) # NULL
               /\ dblock'[inodes[d].index_block] =
                    BlockOf(Without(EntrySeq(files), SlotOf(files, ino)))
      ]_vars

\* An unlink removed the first of three entries: the two others moved up.
C5_Witness ==
    /\ last.op = "unlink" /\ last.ret = "OK" /\ last.name = <<1>>
    /\ DirBlock(last.dir)[0].filename = strncpy(<<2>>)
    /\ DirBlock(last.dir)[1].filename = strncpy(<<1, 2>>)
    /\ DirBlock(last.dir)[2] = ZeroFile

\* ------------------------------------------------------------------ C9
\* C9: a same-parent rename to a name not present in the directory changes
\* only the stored filename of the renamed entry: slot and inode number stay,
\* as do every other entry, every inode's block allocation, the bitmaps and
\* the free counts.
C9_RenameInPlace ==
    [][ (Calls("rename") /\ last'.ret = "OK" /\ last'.new_dir = last'.dir) =>
          LET b == inodes[last'.dir].index_block
              p == SlotOf(dblock[b], last'.ino)
          IN /\ p # NULL
             /\ dblock' = [dblock EXCEPT ![b][p].filename =
                                            strncpy(last'.new_name)]
             /\ dblock'[b][p].inode = last'.ino
             /\ \A i \in Inodes :
                    /\ inodes'[i].index_block = inodes[i].index_block
                    /\ inodes'[i].i_blocks = inodes[i].i_blocks
             /\ UNCHANGED <<iblock, data, ifree, bfree, nr_free_inodes,
                            nr_free_blocks>>
      ]_vars

\* A same-parent rename of an entry that is not the first of its directory.
C9_Witness ==
    /\ last.op = "rename" /\ last.ret = "OK" /\ last.new_dir = last.dir
    /\ SlotOf(DirBlock(last.dir), last.ino) \notin {NULL, 0}
    /\ DirBlock(last.dir)[SlotOf(DirBlock(last.dir), last.ino)].filename
          = strncpy(last.new_name)

\* ------------------------------------------------------------------ C10
\* C10: a rename (supported flags, valid new name) whose new name exists in
\* the target directory fails with EEXIST; a cross-parent rename into a target
\* with no free slot, the new name absent from it, fails with EMLINK; in both
\* cases no eviction pass runs and nothing changes: directories, inode
\* records, link counts, reference counts, bitmaps and free counts.
C10_RenameFails ==
    [][ (Calls("rename") /\ last'.ret # "EINVAL"
            /\ strlen(last'.new_name) <= OUICHEFS_FILENAME_LEN) =>
          LET target == DirBlock(last'.new_dir)
              exists == \E j \in Slots :
                          /\ target[j].inode # 0
                          /\ target[j].filename = strncpy(last'.new_name)
              full == \A j \in Slots : target[j].inode # 0
          IN /\ exists => (last'.ret = "EEXIST" /\ UNCHANGED fsvars)
             /\ (~exists /\ full /\ last'.new_dir # last'.dir) =>
                    (last'.ret = "EMLINK" /\ UNCHANGED fsvars)
      ]_vars

\* A cross-parent rename into a full directory has failed with EMLINK.
C10_Witness ==
    /\ last.op = "rename" /\ last.ret = "EMLINK"
    /\ last.new_dir # last.dir
    /\ NrEntries(DirBlock(last.new_dir)) = OUICHEFS_MAX_SUBFILES

\* A rename onto an existing name has failed with EEXIST.
C10_WitnessExists ==
    /\ last.op = "rename" /\ last.ret = "EEXIST"
    /\ dir_find(DirBlock(last.new_dir), last.new_name, 0) # 0

\* ------------------------------------------------------------------ eviction vocabulary
\* The regular files below scope that nobody but their dentry references.
Eligible(scope) ==
    { i \in Subtree(FsState, scope) \ {scope} : IsReg(i) /\ i_count[i] <= 1 }

\* The blocks of a file: its index block and every block number the index
\* block stores.
BlocksOf(ino) ==
    LET ib == inodes[ino].index_block
    IN ({ib} \cup { iblock[ib][k] : k \in ISlots }) \ {0}

\* The directory block of dir has no free slot.
IsFull(dir) == \A j \in Slots : DirBlock(dir)[j].inode # 0

\* This step runs an eviction pass: reclaim, or create (valid name) on a full
\* directory; PassScope is the directory the pass starts from.
PassRuns ==
    \/ Calls("reclaim")
    \/ /\ Calls("create")
       /\ strlen(last'.name) <= OUICHEFS_FILENAME_LEN
       /\ IsFull(last'.dir)
PassScope == IF last'.op = "reclaim" THEN RootIno ELSE last'.dir

\* ------------------------------------------------------------------ C2
\* C2: when a directory holds OUICHEFS_MAX_SUBFILES regular files of which at
\* least one is unreferenced, one more create in it succeeds, deletes exactly
\* one unreferenced file (its entry is gone, its inode and its blocks are
\* freed) and no other file, and the new file is an entry of the directory,
\* which again holds exactly OUICHEFS_MAX_SUBFILES entries.
C2_CreateEvictsOne ==
    [][ ( /\ Calls("create")
          /\ strlen(last'.name) <= OUICHEFS_FILENAME_LEN
          /\ ModuleOf(strategy) \in loaded
          /\ IsFull(last'.dir)
          /\ \A j \in Slots : IsReg(DirBlock(last'.dir)[j].inode)
          /\ \E j \in Slots : i_count[DirBlock(last'.dir)[j].inode] <= 1 ) =>
        LET d == last'.dir
            b == inodes[d].index_block
            files == dblock[b]
            v == last'.victim.inode
            new == [inode |-> last'.ino, filename |-> strncpy(last'.name)]
        IN /\ last'.ret = "OK"
           /\ SlotOf(files, v) # NULL
           /\ i_count[v] <= 1
           /\ { dblock'[b][j] : j \in Slots } =
                ({ files[j] : j \in Slots } \ {files[SlotOf(files, v)]})
                    \cup {new}
           /\ NrEntries(dblock'[b]) = OUICHEFS_MAX_SUBFILES
           /\ ifree' = (ifree \cup {v}) \ {last'.ino}
           /\ bfree' = (bfree \cup BlocksOf(v))
                          \ {inodes'[last'.ino].index_block}
           /\ \A j \in Slots :
                 LET e == files[j].inode IN
                 e # v => /\ inodes'[e] = inodes[e]
                          /\ iblock'[inodes[e].index_block]
                                = iblock[inodes[e].index_block]
                          /\ e \notin ifree'
      ]_vars

\* C2 for victims whose index block has no hole: every used slot of the index
\* block is below i_blocks - 1.
C2_Dense ==
    [][ ( /\ Calls("create")
          /\ strlen(last'.name) <= OUICHEFS_FILENAME_LEN
          /\ ModuleOf(strategy) \in loaded
          /\ IsFull(last'.dir)
          /\ \A j \in Slots : IsReg(DirBlock(last'.dir)[j].inode)
          /\ \E j \in Slots : i_count[DirBlock(last'.dir)[j].inode] <= 1
          /\ \A j \in Slots, k \in ISlots :
                LET e == DirBlock(last'.dir)[j].inode IN
                iblock[inodes[e].index_block][k] # 0 =>
                    k < inodes[e].i_blocks - 1 ) =>
        LET d == last'.dir
            b == inodes[d].index_block
            files == dblock[b]
            v == last'.victim.inode
            new == [inode |-> last'.ino, filename |-> strncpy(last'.name)]
        IN /\ last'.ret = "OK"
           /\ SlotOf(files, v) # NULL
           /\ i_count[v] <= 1
           /\ { dblock'[b][j] : j \in Slots } =
                ({ files[j] : j \in Slots } \ {files[SlotOf(files, v)]})
                    \cup {new}
           /\ NrEntries(dblock'[b]) = OUICHEFS_MAX_SUBFILES
           /\ ifree' = (ifree \cup {v}) \ {last'.ino}
           /\ bfree' = (bfree \cup BlocksOf(v))
                          \ {inodes'[last'.ino].index_block}
           /\ \A j \in Slots :
                 LET e == files[j].inode IN
                 e # v => /\ inodes'[e] = inodes[e]
                          /\ iblock'[inodes[e].index_block]
                                = iblock[inodes[e].index_block]
                          /\ e \notin ifree'
      ]_vars

\* ------------------------------------------------------------------ C3
\* C3: a create on a full directory whose subtree holds no unreferenced
\* regular file fails with EMLINK, and every directory block, inode record,
\* bitmap and free count is as before the call.
C3_CreateNoVictim ==
    [][ ( /\ Calls("create")
          /\ strlen(last'.name) <= OUICHEFS_FILENAME_LEN
          /\ IsFull(last'.dir)
          /\ Eligible(last'.dir) = {} ) =>
        (last'.ret = "EMLINK" /\ UNCHANGED disk)
      ]_vars

\* A create has failed on a full directory all of whose files are referenced.
C3_Witness ==
    /\ last.op = "create" /\ last.ret = "EMLINK"
    /\ IsFull(last.dir)
    /\ \E i \in Children(FsState, last.dir) : IsReg(i) /\ i_count[i] > 1

\* A create has failed on a full directory with no regular file below it.
C3_WitnessNoFile ==
    /\ last.op = "create" /\ last.ret = "EMLINK"
    /\ IsFull(last.dir)
    /\ \A i \in Subtree(FsState, last.dir) : IsDir(i)

\* ------------------------------------------------------------------ C6
\* C6: an eviction pass (create on a full directory, or reclaim) deletes no
\* directory and no referenced file: every inode of the tree other than the
\* victim stays in the tree with its mode and its index block, and the victim,
\* if there is one, is a regular file that nobody but its dentry references
\* and that lies below the directory the pass starts from.
C6_EvictsOnlyEligible ==
    [][ PassRuns =>
        LET v == last'.victim.inode IN
        /\ v # NULL => v \in Eligible(PassScope)
        /\ \A i \in Subtree(FsState, RootIno) \ {v} :
              /\ i \in Subtree(FsState', RootIno)
              /\ i \notin ifree'
              /\ inodes'[i].i_mode = inodes[i].i_mode
              /\ inodes'[i].index_block = inodes[i].index_block
        /\ v # NULL =>
              \A d \in Inodes : IsDir(d) =>
                  \A j \in Slots :
                      dblock'[inodes[d].index_block][j].inode = v =>
                          (last'.op = "create" /\ last'.ino = v)
      ]_vars

\* A reclaim pass over a tree holding a directory and a referenced file has
\* deleted a file, and the directory and the referenced file are still there.
C6_Witness ==
    /\ last.op = "reclaim" /\ last.victim.inode # NULL
    /\ \E i \in Subtree(FsState, RootIno) \ {RootIno} : IsDir(i)
    /\ \E i \in Subtree(FsState, RootIno) : IsReg(i) /\ i_count[i] > 1

\* ------------------------------------------------------------------ C7
\* C7: under the default comparator the victim of an eviction pass is an
\* unreferenced regular file below the pass's directory, and no unreferenced
\* regular file below that directory has a smaller modification time; a pass
\* finds a victim whenever there is such a file.
C7_OldestFirst ==
    [][ (PassRuns /\ strategy = "ouichefs_fblocks_strategy_mtime") =>
        LET v == last'.victim.inode IN
        /\ Eligible(PassScope) # {} => v # NULL
        /\ v # NULL =>
             /\ v \in Eligible(PassScope)
             /\ \A e \in Eligible(PassScope) :
                    inodes[e].i_mtime >= inodes[v].i_mtime
      ]_vars

\* A reclaim pass under the default comparator first met the file of the
\* root's first sub-directory, modified at time 2, and has deleted an older
\* file met later, in the root itself.
C7_Witness ==
    /\ last.op = "reclaim" /\ last.victim.parent = RootIno
    /\ strategy = "ouichefs_fblocks_strategy_mtime"
    /\ LET d == DirBlock(RootIno)[0].inode IN
       /\ d # 0 /\ IsDir(d)
       /\ LET e == DirBlock(d)[0].inode IN
          /\ e # 0 /\ IsReg(e) /\ i_count[e] <= 1
          /\ inodes[e].i_mtime = 2

\* ------------------------------------------------------------------ C8
\* C8: once either strategy-changer module has installed its comparator, the
\* victim of an eviction pass is an unreferenced regular file below the pass's
\* directory of maximal size: no unreferenced regular file below that
\* directory is larger.
C8_LargestFirst ==
    [][ ( /\ PassRuns
          /\ strategy \in {"ouichefs_strategy_size", "strategy_by_size"}
          /\ ModuleOf(strategy) \in loaded
          /\ last'.victim.inode # NULL ) =>
        LET v == last'.victim.inode IN
        /\ v \in Eligible(PassScope)
        /\ \A e \in Eligible(PassScope) : inodes[e].i_size <= inodes[v].i_size
      ]_vars

\* C8 for the comparator of ouichefs_strategy_changer.c alone.
C8_LargestFirstChanger ==
    [][ ( /\ PassRuns
          /\ strategy = "ouichefs_strategy_size"
          /\ ModuleOf(strategy) \in loaded
          /\ last'.victim.inode # NULL ) =>
        LET v == last'.victim.inode IN
        /\ v \in Eligible(PassScope)
        /\ \A e \in Eligible(PassScope) : inodes[e].i_size <= inodes[v].i_size
      ]_vars

\* ------------------------------------------------------------------ C11
\* The fields of an inode record that clean_inode of ouichefs_remove zeroes
\* (mode, owner, group, size, times, block count, index block) are zero.
CleanedInode(rec) ==
    /\ rec.i_mode = "NONE" /\ rec.i_uid = 0 /\ rec.i_gid = 0
    /\ rec.i_size = 0 /\ rec.i_blocks = 0 /\ rec.index_block = 0
    /\ rec.i_ctime = 0 /\ rec.i_atime = 0 /\ rec.i_mtime = 0

C11_WitnessFile ==
    /\ last.op = "rmdir" /\ last.ret = "ENOTEMPTY"
    /\ inodes[last.ino].i_nlink = 2
    /\ IsReg(DirBlock(last.ino)[0].inode)

\* An rmdir has been refused on a directory whose link count is above 2.
C11_WitnessNlink ==
    /\ last.op = "rmdir" /\ last.ret = "ENOTEMPTY"
    /\ inodes[last.ino].i_nlink > 2

\* ------------------------------------------------------------------ C12
\* Each free count is the number of free bits of its bitmap and does not
\* exceed the total.
CountsMatch ==
    /\ ifree \subseteq Inodes /\ bfree \subseteq Blocks
    /\ nr_free_inodes = Cardinality(ifree) /\ nr_free_inodes <= NrInodes
    /\ nr_free_blocks = Cardinality(bfree) /\ nr_free_blocks <= NrBlocks

\* The allocated inodes are exactly the inodes of the tree, and the allocated
\* blocks exactly the blocks of those inodes (index block and the block
\* numbers it stores for a regular file), no block belonging to two inodes;
\* no directory entry names an inode the volume does not have.
NothingLeaked ==
    LET tree == Subtree(FsState, RootIno)
        owned(i) == IF IsReg(i) THEN BlocksOf(i) ELSE {inodes[i].index_block}
    IN /\ \A b \in Blocks, j \in Slots : dblock[b][j].inode \in Inodes
       /\ Inodes \ ifree = tree
       /\ Blocks \ bfree = UNION { owned(i) : i \in tree }
       /\ \A i \in tree, j \in tree : i # j => owned(i) \cap owned(j) = {}

\* C12: without I/O faults, in every state each free count equals the number
\* of free bits of its bitmap and does not exceed the total, and nothing is
\* leaked or freed twice: the allocated inodes and blocks are exactly those of
\* the files and directories of the tree, so that once everything that was
\* created has been removed (unlink, rmdir, eviction) both bitmaps and both
\* free counts are what they were before.
C12_RoundTrip ==
    /\ CountsMatch
    /\ NothingLeaked
    /\ DirBlock(RootIno) = ZeroDir =>
          /\ ifree = Inodes \ {RootIno} /\ bfree = Blocks \ {RootBlock}
          /\ nr_free_inodes = NrInodes - 1 /\ nr_free_blocks = NrBlocks - 1

\* C12 for the states in which no create has written outside a directory
\* block.
C12_RoundTripInBounds == ~corrupt => C12_RoundTrip

\* Two entries were created and both have been removed again.
C12_Emptied ==
    /\ last.op \in {"unlink", "rmdir", "reclaim"}
    /\ ops >= 4
    /\ DirBlock(RootIno) = ZeroDir

\* ------------------------------------------------------------------ C13
\* C13: a create (valid name) in a directory with a free slot, on a volume
\* with no free inode or no free block, fails with ENOSPC; and after any
\* create that fails with ENOSPC no inode or block is allocated that was free
\* before, the free counts are as before and the parent has no new entry:
\* blocks, inode records, bitmaps and counts are unchanged.
C13_CreateNoSpace ==
    [][ ( /\ Calls("create")
          /\ strlen(last'.name) <= OUICHEFS_FILENAME_LEN ) =>
        /\ ( /\ ~IsFull(last'.dir)
             /\ (nr_free_inodes = 0 \/ nr_free_blocks = 0) ) =>
               last'.ret = "ENOSPC"
        /\ last'.ret = "ENOSPC" =>
             /\ UNCHANGED disk
             /\ ifree' \subseteq ifree /\ bfree' \subseteq bfree
             /\ ifree \subseteq ifree' /\ bfree \subseteq bfree'
             /\ dir_find(dblock'[inodes[last'.dir].index_block],
                         last'.name, 0) = 0
      ]_vars

\* A create has failed with ENOSPC while inodes were free: the blocks were
\* used up by file data.
C13_Witness ==
    /\ last.op = "create" /\ last.ret = "ENOSPC"
    /\ nr_free_blocks = 0 /\ nr_free_inodes > 0

\* A create has failed with ENOSPC with no inode free.
C13_WitnessInodes ==
    /\ last.op = "create" /\ last.ret = "ENOSPC"
    /\ nr_free_inodes = 0

\* The roll-back of ouichefs_new_inode, on the volume as it is with the block
\* bitmap found empty only once the inode has been taken (the check of the
\* free counts precedes both allocations, so that a call by a single thread
\* does not get there): ENOSPC, and the inode is free again.
C13_Rollback ==
    LET S == [FsState EXCEPT !.bfree = {}]
        r == new_inode_block(get_free_inode(S), "REG", now)
    IN ifree # {} => (r.ret = "ENOSPC" /\ r.ino = 0 /\ r.st = S)

\* ------------------------------------------------------------------ C14
\* C14: after any sequence of operations an inode is free in the inode bitmap
\* if and only if its index_block is 0 and every field of its record (mode,
\* owner, group, size, times, link count, block count) is zero.
C14_FreeIffZero ==
    \A i \in Inodes : (i \in ifree) <=> (inodes[i] = ZeroInode)

\* C14 without the link count: an inode is free if and only if the fields
\* clean_inode zeroes are zero.
C14_FreeIffCleaned ==
    \A i \in Inodes : (i \in ifree) <=> CleanedInode(inodes[i])

\* The link count of a free inode is what it was when the inode was removed.
C14_StaleNlink ==
    \E i \in ifree : CleanedInode(inodes[i]) /\ inodes[i].i_nlink # 0

\* ------------------------------------------------------------------ C15
\* The create of this step stored its (inode, name) pair in a slot of the
\* parent's block, wrote nothing outside the block, and every entry of the
\* parent other than the evicted one is still there.
CreateStoredInBlock ==
    LET b == inodes[last'.dir].index_block
        v == last'.victim.inode
        new == [inode |-> last'.ino, filename |-> strncpy(last'.name)]
    IN /\ ~corrupt'
       /\ \E j \in Slots : dblock'[b][j] = new
       /\ \A k \in Slots :
             (dblock[b][k].inode # 0 /\ dblock[b][k].inode # v) =>
                 \E j \in Slots : dblock'[b][j] = dblock[b][k]
       /\ NrEntries(dblock'[b]) <= OUICHEFS_MAX_SUBFILES
       /\ Cardinality({ j \in Slots : dblock'[b][j].inode # 0 }) =
            Cardinality({ k \in Slots : dblock[b][k].inode # 0
                                        /\ dblock[b][k].inode # v }) + 1

\* C15: on a full parent directory whose entries are regular files or
\* sub-directories, every create that returns success has stored the new
\* (inode, name) pair in a slot with index below OUICHEFS_MAX_SUBFILES that
\* was zero when the pair was inserted; it writes no slot index at or above
\* OUICHEFS_MAX_SUBFILES and overwrites no entry.
C15_CreateInBounds ==
    [][ (Calls("create") /\ last'.ret = "OK" /\ IsFull(last'.dir)) =>
          CreateStoredInBlock
      ]_vars

\* C15 for the creates whose eviction pass took its victim in the parent
\* itself.
C15_CreateInBoundsDirect ==
    [][ ( /\ Calls("create") /\ last'.ret = "OK" /\ IsFull(last'.dir)
          /\ last'.victim.parent = last'.dir ) =>
          CreateStoredInBlock
      ]_vars

\* A create on a full directory has evicted a file of that directory and
\* stored its entry in the block.
C15_DirectReached ==
    /\ last.op = "create" /\ last.ret = "OK" /\ ~corrupt
    /\ last.victim.parent = last.dir
    /\ IsFull(last.dir)

\* ------------------------------------------------------------------ C16
\* This step is a cross-parent rename (supported flags, valid new name) into
\* a target with a free slot and without the new name.
RenamesAcross ==
    /\ Calls("rename") /\ last'.ret # "EINVAL"
    /\ strlen(last'.new_name) <= OUICHEFS_FILENAME_LEN
    /\ last'.new_dir # last'.dir
    /\ ~IsFull(last'.new_dir)
    /\ \A j \in Slots :
          ~strncmp_eq(DirBlock(last'.new_dir)[j].filename, last'.new_name)

\* The rename of this step succeeded; the moved inode is stored under the new
\* name in the target's first zero slot; the source holds its other entries
\* left-packed in their order; the scan of the source stayed inside the
\* block; the link counts of target and source follow a moved directory.
MovedAcross ==
    LET sb == inodes[last'.dir].index_block
        tb == inodes[last'.new_dir].index_block
        src == last'.ino
        files == dblock[sb]
        pos == SlotOf(files, src)
        moved == IF S_ISDIR(inodes[src].i_mode) THEN 1 ELSE 0
    IN /\ last'.ret = "OK"
       /\ dblock'[tb] =
            [dblock[tb] EXCEPT ![NrEntries(dblock[tb])] =
                [inode |-> src, filename |-> strncpy(last'.new_name)]]
       /\ pos # NULL
       /\ dblock'[sb] = BlockOf(Without(EntrySeq(files), pos))
       /\ ~last'.oob_read
       /\ ~corrupt'
       /\ inodes'[last'.new_dir].i_nlink =
            inodes[last'.new_dir].i_nlink + moved
       /\ inodes'[last'.dir].i_nlink = inodes[last'.dir].i_nlink - moved

\* C16: a cross-parent rename from a source directory holding k entries, for
\* every k from 1 to OUICHEFS_MAX_SUBFILES (a full source included), into a
\* target with a free slot and without the new name succeeds: the moved inode
\* is stored under the new name in the target's first zero slot, the source
\* holds the other k-1 entries left-packed in order, the scan of the source
\* examines no slot index at or above OUICHEFS_MAX_SUBFILES, and a moved
\* directory adds one to the target's link count and takes one from the
\* source's.
C16_RenameAcross == [][ RenamesAcross => MovedAcross ]_vars

\* C16 for the sources that are not full (k < OUICHEFS_MAX_SUBFILES).
C16_RenameAcrossNotFull ==
    [][ (RenamesAcross /\ ~IsFull(last'.dir)) => MovedAcross ]_vars

\* A directory has been moved out of a source that held two entries.
C16_NotFullReached ==
    /\ last.op = "rename" /\ last.ret = "OK" /\ last.new_dir # last.dir
    /\ ~last.oob_read
    /\ IsDir(last.ino)
    /\ NrEntries(DirBlock(last.dir)) = 1

\* ------------------------------------------------------------------ C17
\* The regular files below dir in depth-first order: the entries of dir in
\* slot order from slot i on, the files below a sub-directory standing at the
\* place of the sub-directory's entry.
RECURSIVE DepthFirst(_, _)
DepthFirst(dir, i) ==
    IF i >= OUICHEFS_MAX_SUBFILES THEN <<>>
    ELSE LET e == DirBlock(dir)[i].inode IN
         IF e = 0 THEN <<>>
         ELSE (IF IsDir(e) THEN DepthFirst(e, 0)
               ELSE IF IsReg(e) THEN <<e>> ELSE <<>>)
              \o DepthFirst(dir, i + 1)

\* The regular files below dir, parent before children: the files that are
\* entries of dir in slot order, then those below each sub-directory of dir.
RECURSIVE ParentFirst(_)
RECURSIVE DirectFiles(_, _)
RECURSIVE BelowSubdirs(_, _)
DirectFiles(dir, i) ==
    IF i >= OUICHEFS_MAX_SUBFILES THEN <<>>
    ELSE LET e == DirBlock(dir)[i].inode IN
         IF e = 0 THEN <<>>
         ELSE (IF IsReg(e) THEN <<e>> ELSE <<>>) \o DirectFiles(dir, i + 1)
BelowSubdirs(dir, i) ==
    IF i >= OUICHEFS_MAX_SUBFILES THEN <<>>
    ELSE LET e == DirBlock(dir)[i].inode IN
         IF e = 0 THEN <<>>
         ELSE (IF IsDir(e) THEN ParentFirst(e) ELSE <<>>)
              \o BelowSubdirs(dir, i + 1)
ParentFirst(dir) == DirectFiles(dir, 0) \o BelowSubdirs(dir, 0)

\* The comparator in force ties the victim v with the candidate e.
Tied(v, e) ==
    IF strategy = "NULL" THEN TRUE
    ELSE call_strategy(strategy, FsState, v, e) = 0

\* The victim of this step's pass is, among the unreferenced files of the
\* sequence order that tie with it, the first one.
FirstOfTied(order) ==
    LET v == last'.victim.inode
        cand == SelectSeq(order, LAMBDA e : i_count[e] <= 1)
    IN \E k \in 1..Len(cand) :
          /\ cand[k] = v
          /\ \A m \in 1..Len(cand) : (m # k /\ Tied(v, cand[m])) => k < m

\* This step runs an eviction pass that finds a victim, under a comparator
\* whose module is loaded.
PassFinds ==
    /\ PassRuns
    /\ (strategy = "NULL" \/ ModuleOf(strategy) \in loaded)
    /\ last'.victim.inode # NULL

\* C17 as stated: when several eligible candidates tie under the active
\* comparator, the victim is the first of them in the order 'parent before
\* children, then entry order within a directory': a tied file that is an
\* entry of a directory comes before a tied file inside any sub-directory
\* of that directory, whatever their slots.
C17_ParentBeforeChildren ==
    [][ PassFinds => FirstOfTied(ParentFirst(PassScope)) ]_vars

\* C17 amended: when several eligible candidates tie under the active
\* comparator, the victim is the first of them in depth-first order: the
\* entries of a directory are visited in slot order and the files below a
\* sub-directory are visited when the sub-directory's entry is, before the
\* entries in later slots of the parent.
C17_DepthFirst ==
    [][ PassFinds => FirstOfTied(DepthFirst(PassScope, 0)) ]_vars

\* A reclaim pass at the first instant of the clock (every modification time
\* is 1) under the default comparator has deleted a file of a sub-directory
\* although the root itself holds an unreferenced regular file.
C17_Witness ==
    /\ last.op = "reclaim" /\ last.victim.inode # NULL
    /\ last.victim.parent # RootIno
    /\ strategy = "ouichefs_fblocks_strategy_mtime"
    /\ now = 1
    /\ \E j \in Slots :
          LET e == DirBlock(RootIno)[j].inode IN
          e # 0 /\ IsReg(e) /\ i_count[e] <= 1

\* ------------------------------------------------------------------ C18
\* This step removes the regular file v: by unlink, or as the victim of a
\* reclaim pass.
Removes(v) ==
    /\ v \in Inodes /\ IsReg(v)
    /\ \/ Calls("unlink") /\ last'.ret = "OK" /\ last'.ino = v
       \/ Calls("reclaim") /\ last'.victim.inode = v

\* Every non-zero block number the index block of v stores is free after the
\* step and the block's content is zero.
DataBlocksReleased(v) ==
    \A k \in ISlots :
        LET b == iblock[inodes[v].index_block][k] IN
        b # 0 => (b \in bfree' /\ data'[b] = 0 /\ iblock'[b] = ZeroIdx
                    /\ dblock'[b] = ZeroDir)

\* The index block of v has no hole: its used slots are the first
\* i_blocks - 1.
Dense(v) ==
    \A k \in ISlots :
        iblock[inodes[v].index_block][k] # 0 => k < inodes[v].i_blocks - 1

\* C18: removing a regular file frees every non-zero data block number stored
\* in its index block, also when the index block has holes (zero entries
\* between or before used slots, block count = used slots + 1), and each such
\* data block is zeroed.
C18_FreesAllBlocks ==
    [][ \A v \in Inodes : Removes(v) => DataBlocksReleased(v) ]_vars

\* C18 for the files whose index block has no hole.
C18_FreesAllBlocksDense ==
    [][ \A v \in Inodes : (Removes(v) /\ Dense(v)) => DataBlocksReleased(v)
      ]_vars

\* A file with two data blocks has been removed and the volume holds no file
\* data any more.
C18_DenseReached ==
    /\ last.op \in {"unlink", "reclaim"}
    /\ nr_free_blocks = NrBlocks - 1
    /\ ops >= 4
    /\ \A b \in Blocks : data[b] = 0

\* A file has been removed and a data block it stored behind a hole is still
\* allocated, with its content.
C18_Leaked ==
    /\ last.op \in {"unlink", "reclaim"}
    /\ DirBlock(RootIno) = ZeroDir
    /\ \E b \in Blocks : data[b] = 1 /\ b \notin bfree

\* ------------------------------------------------------------------ C19
\* This step removes the regular file v from the directory d with the blocks
\* of last'.bad unreadable: by unlink, or as the victim of a reclaim pass.
RemovesFrom(v, d) ==
    /\ v \in Inodes /\ IsReg(v) /\ d \in Inodes
    /\ \/ Calls("unlink") /\ last'.ino = v /\ last'.dir = d
          /\ inodes[d].index_block \notin last'.bad
       \/ Calls("reclaim") /\ last'.victim.inode = v
          /\ last'.victim.parent = d

\* The removal of v from d succeeded: the entry of v has left d, the inode
\* is freed with the fields of the removal path zeroed, and the index block
\* number is freed.
RemovedAnyway(v, d) ==
    LET db == inodes[d].index_block
        ib == inodes[v].index_block
    IN /\ last'.op = "unlink" => last'.ret = "OK"
       /\ SlotOf(dblock[db], v) # NULL
       /\ dblock'[db] =
            BlockOf(Without(EntrySeq(dblock[db]), SlotOf(dblock[db], v)))
       /\ CleanedInode(inodes'[v])
       /\ v \notin ifree /\ ifree' = ifree \cup {v}
       /\ nr_free_inodes' = nr_free_inodes + 1
       /\ ib \notin bfree /\ ib \in bfree'

\* The data blocks of v.
DataBlocksOf(v) == BlocksOf(v) \ {inodes[v].index_block}

C19_WitnessData ==
    /\ last.op = "unlink" /\ last.ret = "OK"
    /\ last.ino \in ifree
    /\ \E b \in last.bad : data[b] = 1 /\ b \in bfree
    /\ nr_free_blocks = NrBlocks - 1
    /\ ops = 4

\* ------------------------------------------------------------------ C20
\* The deletion step of a pass runs in this step.
DeletionStep == last.op = "scan" /\ last'.op = "reclaim"

\* At the moment of deletion the recorded victim is still an allocated inode,
\* still unreferenced, and still an entry of its recorded parent.
StillEligible ==
    /\ last.victim.inode # NULL
    /\ last.victim.inode \notin ifree
    /\ i_count[last.victim.inode] <= 1
    /\ IsDir(last.victim.parent)
    /\ SlotOf(DirBlock(last.victim.parent), last.victim.inode) # NULL

\* C20: when an open, an unlink or a rename of the victim by another thread
\* runs between the scan and the deletion step of an eviction pass, the
\* deletion step deletes the victim only if it is then still unreferenced and
\* still an entry of its recorded parent; otherwise it deletes nothing (the
\* volume is left as it is and memory stays intact).
C20_Revalidates ==
    [][ (DeletionStep /\ ~StillEligible) => (UNCHANGED disk /\ ~corrupt') ]_vars

\* C20 for the passes no other thread has interleaved with: the victim the
\* scan chose is still eligible when the deletion step runs.
C20_NoInterleaving ==
    [][ (DeletionStep /\ last.ret = "scanned") =>
            (last.victim.inode = NULL \/ StillEligible) ]_vars

\* C20 for the open alone: a victim opened after the scan is not deleted.
C20_OpenedNotDeleted ==
    [][ (DeletionStep /\ last.victim.inode # NULL
           /\ last.victim.inode \notin ifree
           /\ i_count[last.victim.inode] > 1)
        => UNCHANGED disk ]_vars

\* A pass has deleted a file another thread had opened after the scan: the
\* inode is free while a reference to it is still held.
C20_DeletedWhileOpen ==
    /\ last.op = "reclaim"
    /\ last.victim.inode # NULL
    /\ last.victim.inode \in ifree
    /\ i_count[last.victim.inode] >= 1
    /\ ~corrupt

\* A pass has run its deletion step on a victim another thread had moved to
\* another directory after the scan.
C20_DeletedElsewhere ==
    /\ last.op = "reclaim"
    /\ last.victim.inode # NULL
    /\ \E d \in Inodes :
          /\ d # last.victim.parent
          /\ d \notin ifree /\ S_ISDIR(inodes[d].i_mode)
          /\ inodes[d].index_block \in Blocks
          /\ SlotOf(dblock[inodes[d].index_block], last.victim.inode) # NULL

\* ------------------------------------------------------------------ C21
\* The entries of dir's block that name an allocated directory.
SubdirSlots(dir) ==
    { j \in Slots :
        /\ DirBlock(dir)[j].inode \in Inodes \ {0}
        /\ DirBlock(dir)[j].inode \notin ifree
        /\ S_ISDIR(inodes[DirBlock(dir)[j].inode].i_mode) }

\* Every allocated directory has link count 2 + its sub-directory entries,
\* every allocated regular file has link count 1.
LinkCountsMatch ==
    \A i \in Inodes \ ifree :
        /\ S_ISDIR(inodes[i].i_mode) =>
              /\ inodes[i].index_block \in Blocks
              /\ inodes[i].i_nlink = 2 + Cardinality(SubdirSlots(i))
        /\ S_ISREG(inodes[i].i_mode) => inodes[i].i_nlink = 1

\* C21: after any sequence of create, mkdir, unlink, rmdir, rename and
\* eviction passes, every allocated directory's link count is 2 plus the
\* number of entries of its block that are directories, and every allocated
\* regular file's link count is 1.
C21_LinkCounts == LinkCountsMatch

\* C21 for the sequences in which every entry has been written inside its
\* directory block.
C21_LinkCountsInBounds == ~corrupt => LinkCountsMatch

\* A directory holds a sub-directory and a regular file, after a directory
\* has been moved or removed.
C21_Reached ==
    /\ ~corrupt
    /\ last.op \in {"rename", "rmdir"} /\ last.ret = "OK"
    /\ \E d \in Inodes \ ifree :
          /\ S_ISDIR(inodes[d].i_mode)
          /\ inodes[d].i_nlink = 3
          /\ \E j \in Slots : DirBlock(d)[j].inode # 0
                /\ DirBlock(d)[j].inode \in Inodes
                /\ S_ISREG(inodes[DirBlock(d)[j].inode].i_mode)

\* A mkdir has counted a sub-directory in the link count of a parent whose
\* block does not hold its entry.
C21_CountedNotStored ==
    /\ corrupt
    /\ last.op = "create" /\ last.ret = "OK"
    /\ S_ISDIR(inodes[last.ino].i_mode)
    /\ SlotOf(DirBlock(last.dir), last.ino) = NULL
    /\ inodes[last.dir].i_nlink = 3 + Cardinality(SubdirSlots(last.dir))

\* ------------------------------------------------------------------ C22
\* The directory entries of the whole tree that name the inode ino: pairs of
\* an allocated directory and a slot of its block.
EntriesOf(ino) ==
    { e \in (Inodes \ ifree) \X Slots :
        /\ S_ISDIR(inodes[e[1]].i_mode)
        /\ inodes[e[1]].index_block \in Blocks
        /\ dblock[inodes[e[1]].index_block][e[2]].inode = ino }

\* Every allocated inode other than the root is named by exactly one entry.
OneEntryEach ==
    \A i \in (Inodes \ ifree) \ {RootIno} : Cardinality(EntriesOf(i)) = 1

\* No entry names an inode that is free in the bitmap (or is no inode).
NoEntryOfFree ==
    \A i \in (ifree \cup {GarbageIno}) \ {0} : EntriesOf(i) = {}

\* C22: after any sequence of operations, whether each succeeded or returned
\* an error (an I/O fault in the middle of a cross-parent rename or of a
\* create included), every allocated inode other than the root is referenced
\* by exactly one directory entry of the whole tree, and no directory entry
\* references an inode that is free in the bitmap.
C22_OneEntryEach == OneEntryEach /\ NoEntryOfFree

\* C22 for the sequences in which no entry has been accessed outside its
\* directory block; it is meant for the specifications whose renames meet no
\* I/O fault.
C22_OneEntryEachNoFault == ~corrupt => (OneEntryEach /\ NoEntryOfFree)

\* C22 for the step of a rename alone: a rename that returns an error leaves
\* every directory block as it was.
C22_FailedRenameKeepsBlocks ==
    [][ (Calls("rename") /\ last'.ret # "OK") => UNCHANGED dblock ]_vars

\* A cross-parent rename has returned EIO after the entry was inserted in the
\* new parent: the inode is named by the old parent and by the new one.
C22_TwoEntries ==
    /\ ~corrupt
    /\ last.op = "rename" /\ last.ret = "EIO"
    /\ Cardinality(EntriesOf(last.ino)) = 2

\* A create has returned EIO on the read of the new inode's index block.
C22_CreateFault ==
    /\ ~corrupt
    /\ last.op = "create" /\ last.ret = "EIO"
    /\ last.bad # {} /\ inodes[last.dir].index_block \notin last.bad

\* ------------------------------------------------------------------ C23
\* The two strategy-changer modules.
ChangerModules == {"ouichefs_strategy_changer", "strategy_changer"}

\* Once no changer is loaded the active comparator is the default one.
DefaultWhenUnloaded ==
    (loaded \cap ChangerModules = {}) =>
        strategy = "ouichefs_fblocks_strategy_mtime"

\* The active comparator is code of a loaded module.
ComparatorLoaded == ModuleOf(strategy) \in loaded

\* C23: for any order of loading and unloading the two strategy-changer
\* modules, once every loaded changer has been unloaded the active comparator
\* is the default mtime strategy, and at no time is the active comparator a
\* function of a module that has been unloaded.
C23_LoadUnload == DefaultWhenUnloaded /\ ComparatorLoaded

\* A changer module is unloaded in this step.
Unloads(m) == m \in loaded /\ m \notin loaded'

\* C23 for the unloads in reverse order of the loads: when the module that
\* is unloaded is the one whose comparator is active, the comparator it
\* restores is code of a module still loaded, and it is the default one when
\* no changer is left.
C23_NestedUnload ==
    [][ \A m \in ChangerModules :
          (Unloads(m) /\ ModuleOf(strategy) = m) =>
              (DefaultWhenUnloaded' /\ ComparatorLoaded') ]_vars

\* Both changers have been loaded and unloaded, the first loaded one first:
\* no changer is loaded and the active comparator is the one of an unloaded
\* module.
C23_Dangling ==
    /\ loaded \cap ChangerModules = {}
    /\ ModuleOf(strategy) \in ChangerModules

\* One changer has been loaded upon the other and both have been unloaded
\* in reverse order: no changer is loaded, the default comparator is active.
C23_NestedReached ==
    /\ loaded \cap ChangerModules = {}
    /\ strategy = "ouichefs_fblocks_strategy_mtime"
    /\ default_strategy # "NULL" /\ saved_strategy # "NULL"
    /\ ModuleOf(default_strategy) \in ChangerModules
          \/ ModuleOf(saved_strategy) \in ChangerModules

====
